---- MODULE Spec2Model ----
(***************************************************************************)
(* A state-machine model of the Oxen local repository core.                *)
(*                                                                         *)
(* Part I   - the ref-backed stash of lib/src/command/stash.rs: a stack of *)
(*            commits kept under the refs <stash-dir>/0, <stash-dir>/1 ... *)
(*                                                                         *)
(* Part II  - the add engine of lib/src/core/v_latest/add.rs: the staged   *)
(*            DB, the version store and the parallel walk of add_dir.      *)
(*                                                                         *)
(* Part III - the tabular metadata process_add_file constructs.            *)
(*                                                                         *)
(* Part IV  - the copy-tree stash of cli/src/cmd/stash.rs: slots that are  *)
(*            directories of copied files.                                 *)
(*                                                                         *)
(* Part V   - add of a glob: the path set and the loop of add_files.       *)
(*                                                                         *)
(* Part VI  - the conflict readers of lib/src/core/merge.                  *)
(*                                                                         *)
(* Part VII - save and drop of Part I, one ref write at a time.            *)
(*                                                                         *)
(* Strings are sequences of one-character strings, so that the parsing and *)
(* formatting the code does on stash ids and ref names is computed and not *)
(* assumed.                                                                *)
(***************************************************************************)
EXTENDS Integers, Sequences, FiniteSets, TLC

\* Bounds of the model: the stash slots and the commits ever written under
\* Spec, and under TreeSpec, which explores every working tree over fewer slots.
MaxStashes == 3
MaxCommits == 4
MaxTreeStashes == 1
MaxTreeCommits == 2
MaxForeignStashes == 2
MaxForeignCommits == 3
MaxFaultStashes == 2
MaxAddEdits == 2

MaxAdds == 2

MaxFlipEdits == 3

MaxFields == 2

MaxCopyEdits == 2

MaxCopyCommits == 1

MaxPushes == 2

MaxGlobEdits == 2

MaxGlobAdds == 1

MaxConflictWrites == 3

MaxStepStashes == 3

MaxStepCommits == 4

MaxAddFaultEdits == 2

MaxAddFaultAdds == 1

MaxFlipAdds == 2

MaxFaultCommits == 3

(***************************************************************************)
(* Strings                                                                 *)
(***************************************************************************)
DigitChars == <<"0", "1", "2", "3", "4", "5", "6", "7", "8", "9">>

IsDigit(c) == c \in {"0", "1", "2", "3", "4", "5", "6", "7", "8", "9"}

DigitVal(c) == (CHOOSE i \in 1..10 : DigitChars[i] = c) - 1

\* str::starts_with
StartsWith(s, p) == Len(p) <= Len(s) /\ SubSeq(s, 1, Len(p)) = p

\* str::trim_start_matches(pat): removes the prefix pat as often as it occurs.
RECURSIVE TrimStartMatches(_, _)
TrimStartMatches(s, pat) ==
    IF pat # <<>> /\ StartsWith(s, pat)
    THEN TrimStartMatches(SubSeq(s, Len(pat) + 1, Len(s)), pat)
    ELSE s

RECURSIVE TrimStartChars(_, _)
TrimStartChars(s, cs) ==
    IF s # <<>> /\ Head(s) \in cs THEN TrimStartChars(Tail(s), cs) ELSE s

RECURSIVE TrimEndChars(_, _)
TrimEndChars(s, cs) ==
    IF s # <<>> /\ s[Len(s)] \in cs
    THEN TrimEndChars(SubSeq(s, 1, Len(s) - 1), cs)
    ELSE s

trim_matches_nothing(s, cs) == s

\* str::trim_matches(|c| ...): removes matching characters from both ends.
TrimMatches(s, cs) == TrimEndChars(TrimStartChars(s, cs), cs)

RECURSIVE DigitsValue(_, _)
DigitsValue(s, acc) ==
    IF s = <<>> THEN acc ELSE DigitsValue(Tail(s), acc * 10 + DigitVal(Head(s)))

\* usize::from_str: an optional "+" followed by at least one decimal digit.
\* -1 stands for Err(ParseIntError).
usize_from_str(s) ==
    LET d == IF s # <<>> /\ Head(s) = "+" THEN Tail(s) ELSE s
    IN  IF d # <<>> /\ \A i \in 1..Len(d) : IsDigit(d[i])
        THEN DigitsValue(d, 0)
        ELSE -1

\* format!("{}", n) of a usize.
RECURSIVE usize_to_string(_)
usize_to_string(n) ==
    IF n < 10
    THEN <<DigitChars[n + 1]>>
    ELSE usize_to_string(n \div 10) \o <<DigitChars[(n % 10) + 1]>>

\* s.split(sep).last(): what follows the last separator, or all of s.
SplitLast(s, sep) ==
    LET at == {i \in 1..Len(s) : s[i] = sep}
    IN  IF at = {}
        THEN s
        ELSE SubSeq(s, (CHOOSE i \in at : \A j \in at : j <= i) + 1, Len(s))

\* Option<&str>
None == [some |-> FALSE, val |-> <<>>]

Some(s) == [some |-> TRUE, val |-> s]

(***************************************************************************)
(* Constants of the stash                                                  *)
(***************************************************************************)
OXEN_STASH_DIR == <<"r", "e", "f", "s", "/", "s", "t", "a", "s", "h", "e", "s">>

STASH_AT == <<"s", "t", "a", "s", "h", "@">>

stash_ref_name(idx) == OXEN_STASH_DIR \o <<"/">> \o usize_to_string(idx)

\* format!("stash@{{{}}}", idx)
stash_display_name(idx) == STASH_AT \o <<"{">> \o usize_to_string(idx) \o <<"}">>

(***************************************************************************)
(* The repository                                                          *)
(***************************************************************************)
Paths == {"a.txt", "b.txt"}

Absent == "absent"

FileBytes == {"hello", "HELLO"}

\* What checkout_index may leave at a conflicted path instead of "ours".
ConflictMarker == "<<<<<<<"

Contents == FileBytes \cup {Absent, ConflictMarker}

\* What the user writes: either bytes to the tracked file, one to the new file.
Writes == {<<"a.txt", "hello">>, <<"a.txt", "HELLO">>, <<"b.txt", "hello">>}

VARIABLES
    refs,       \* the ref database: ref name -> commit id
    commits,    \* the commit database, commit id -> Commit, for the commits
                \* that HEAD or a stash ref reaches (no operation reads another)
    n_commits,  \* the number of commits written so far
    head,       \* the id of the HEAD commit
    on_branch,  \* whether HEAD is on a branch
    wt,         \* the working tree: path -> bytes, or Absent
    staged,     \* the paths staged as additions
    last        \* the operation that ran last and what it returned

vars == <<refs, commits, n_commits, head, on_branch, wt, staged, last>>

\* The id the commit writer gives the n-th commit of the repository: three
\* hex digits, some ids starting with a decimal digit and some sharing a prefix.
CommitIdOf(n) ==
    <<IF n % 2 = 1 THEN "1" ELSE "a", DigitChars[(n % 10) + 1], "f">>

RootCommit ==
    [id |-> CommitIdOf(0), parent_ids |-> <<>>,
     tree |-> [p \in Paths |-> IF p = "a.txt" THEN "hello" ELSE Absent]]

\* The commits of the database cs that the commit h or a ref of r reaches.
RECURSIVE History(_, _)
History(cs, id) ==
    IF cs[id].parent_ids = <<>> THEN {id} ELSE {id} \cup History(cs, cs[id].parent_ids[1])

Reachable(r, cs, h) ==
    LET live == History(cs, h) \cup ({r[n] : n \in DOMAIN r} \cap DOMAIN cs)
    IN  [c \in live |-> cs[c]]

HeadTree == commits[head].tree


(***************************************************************************)
(* repositories::status                                                    *)
(***************************************************************************)
modified_files ==
    {p \in Paths : HeadTree[p] # Absent /\ wt[p] # Absent /\ wt[p] # HeadTree[p]}

added_files == {p \in staged : HeadTree[p] = Absent /\ wt[p] # Absent}

untracked_files ==
    {p \in Paths \ staged : HeadTree[p] = Absent /\ wt[p] # Absent}

removed_files == {p \in Paths : HeadTree[p] # Absent /\ wt[p] = Absent}

is_clean ==
    /\ modified_files = {}
    /\ added_files = {}
    /\ untracked_files = {}
    /\ removed_files = {}

(***************************************************************************)
(* The ref database                                                        *)
(***************************************************************************)
\* api::local::refs::get_commit_id_for_ref: Ok(Some(id)) or Ok(None)
get_commit_id_for_ref(r, name) ==
    IF name \in DOMAIN r THEN Some(r[name]) ELSE None

\* RefWriter::create_ref: sets the ref, overwriting what it held
create_ref(r, name, id) ==
    [n \in DOMAIN r \cup {name} |-> IF n = name THEN id ELSE r[n]]

\* RefWriter::delete_ref
delete_ref(r, name) == [n \in DOMAIN r \ {name} |-> r[n]]

(***************************************************************************)
(* Listing and resolving stashes                                           *)
(***************************************************************************)
\* list_stashes_raw: reads <stash-dir>/0, <stash-dir>/1, ... up to the first
\* absent ref. err is set when a ref names a commit the database lacks.
RECURSIVE list_stashes_from(_, _, _)
list_stashes_from(r, cs, i) ==
    LET ref_name == stash_ref_name(i)
        got == get_commit_id_for_ref(r, ref_name)
    IN  IF ~got.some
        THEN [err |-> FALSE, val |-> <<>>]
        ELSE IF got.val \notin DOMAIN cs
        THEN [err |-> TRUE, val |-> <<>>]
        ELSE LET rest == list_stashes_from(r, cs, i + 1)
             IN  [err |-> rest.err,
                  val |-> <<[ref_name |-> ref_name, commit |-> cs[got.val]]>> \o rest.val]

list_stashes_raw(r, cs) == list_stashes_from(r, cs, 0)

\* list, lines 154-162: the entries of the raw list, each with the display
\* name stash@{idx} of its position.
list_entries(raw_stashes) ==
    [err |-> raw_stashes.err,
     val |-> [j \in 1..Len(raw_stashes.val) |->
                [name |-> stash_display_name(j - 1),
                 ref_name |-> raw_stashes.val[j].ref_name,
                 commit |-> raw_stashes.val[j].commit]]]

list(r, cs) == list_entries(list_stashes_raw(r, cs))

NoEntry == [name |-> <<>>, ref_name |-> <<>>, commit |-> RootCommit]

Ok(entry) == [res |-> "Ok", entry |-> entry]

Err(kind) == [res |-> kind, entry |-> NoEntry]

\* The first entry of stashes, from position j on, whose commit id starts with
\* id_str or whose ref name is id_str.
RECURSIVE first_match(_, _, _)
first_match(stashes, id_str, j) ==
    IF j > Len(stashes)
    THEN Err("StashIdNotFound")
    ELSE IF StartsWith(stashes[j].commit.id, id_str) \/ stashes[j].ref_name = id_str
    THEN Ok(stashes[j])
    ELSE first_match(stashes, id_str, j + 1)

\* resolve_stash_id_to_entry, lines 170-198: the entry of the listed stashes
\* that the id names.
resolve_in_stashes(stashes, stash_id_str) ==
    IF stashes.err THEN Err("CommitIdDoesNotExist")
    ELSE IF stashes.val = <<>> THEN Err("NoStashesFound")
    ELSE IF ~stash_id_str.some THEN Ok(stashes.val[1])
    ELSE LET id_str == stash_id_str.val
             num_id_str == TrimMatches(TrimStartMatches(id_str, STASH_AT), {"{", "}"})
             idx == usize_from_str(num_id_str)
         IN  IF idx >= 0
             THEN IF idx < Len(stashes.val)
                  THEN Ok(stashes.val[idx + 1])
                  ELSE Err("StashIdNotFound")
             ELSE first_match(stashes.val, id_str, 1)

resolve_stash_id_to_entry(r, cs, stash_id_str) ==
    resolve_in_stashes(list(r, cs), stash_id_str)

(***************************************************************************)
(* save                                                                    *)
(***************************************************************************)
\* IndexReader::add_file for each path of a status list: the index view takes
\* the path's working-directory bytes.
index_add_files(tree, w, paths) ==
    [p \in Paths |-> IF p \in paths THEN w[p] ELSE tree[p]]

stash_index_tree_without_untracked ==
    index_add_files(index_add_files(HeadTree, wt, modified_files), wt, added_files)

\* save, lines 63-81: the index view starts from HEAD's tree and takes the
\* modified, the staged-added and the untracked files.
stash_index_tree ==
    LET from_head == HeadTree
        with_modified == index_add_files(from_head, wt, modified_files)
        with_added == index_add_files(with_modified, wt, added_files)
    IN  index_add_files(with_added, wt, untracked_files)

save_shift_refs_none(r, existing_stashes, n) == r

\* save, lines 101-108: for i = n-1 down to 0, write the commit of slot i,
\* as listed before the loop, at ref i+1.
RECURSIVE save_shift_refs(_, _, _)
save_shift_refs(r, existing_stashes, n) ==
    IF n = 0
    THEN r
    ELSE save_shift_refs(
             create_ref(r, stash_ref_name(n), existing_stashes[n].commit.id),
             existing_stashes, n - 1)

\* save, lines 98-110: shift, then write the new commit at ref 0.
save_store_ref(r, existing_stashes, stash_commit_id) ==
    create_ref(save_shift_refs(r, existing_stashes, Len(existing_stashes)),
               stash_ref_name(0), stash_commit_id)

current_branch_never_none == FALSE

\* get_stash_commit_message, lines 29-30: current_branch(repo) is None when
\* HEAD is on no branch, and the message cannot be made.
current_branch_is_none == ~on_branch

save_never_returns_none == FALSE

\* save, lines 48-52: nothing is stashed when status reports a clean tree.
save_returns_none == is_clean

save_reset_tree_of_stash == stash_index_tree

\* save, lines 117-122: the tree the working directory is reset to, that of the
\* HEAD commit fetched at line 54.
save_reset_tree == HeadTree

\* command::reset_hard: the working tree becomes the commit's tree.
reset_hard(tree) == [wt |-> tree, staged |-> {}]

(***************************************************************************)
(* drop                                                                    *)
(***************************************************************************)
RECURSIVE drop_shift_refs_keeps_old(_, _)
drop_shift_refs_keeps_old(r, i) ==
    LET got == get_commit_id_for_ref(r, stash_ref_name(i))
    IN  IF got.some
        THEN drop_shift_refs_keeps_old(create_ref(r, stash_ref_name(i - 1), got.val), i + 1)
        ELSE r

\* drop_by_index, lines 263-277: while ref i exists, write its commit at ref
\* i-1 and delete ref i.
RECURSIVE drop_shift_refs(_, _)
drop_shift_refs(r, i) ==
    LET got == get_commit_id_for_ref(r, stash_ref_name(i))
    IN  IF got.some
        THEN drop_shift_refs(
                 delete_ref(create_ref(r, stash_ref_name(i - 1), got.val),
                            stash_ref_name(i)),
                 i + 1)
        ELSE r

drop_by_index_no_compaction(r, k) == delete_ref(r, stash_ref_name(k))

\* drop_by_index: delete ref k, then shift the refs above it down.
drop_by_index(r, k) == drop_shift_refs(delete_ref(r, stash_ref_name(k)), k + 1)

\* drop and pop, lines 251 and 289: the index is parsed back from the ref name.
index_of_ref_name(ref_name) == usize_from_str(SplitLast(ref_name, "/"))

\* drop, lines 285-290, once the id is resolved to stash_to_drop.
drop_entry(r, stash_to_drop) ==
    LET idx_to_drop == index_of_ref_name(stash_to_drop.entry.ref_name)
    IN  IF stash_to_drop.res # "Ok" THEN [res |-> stash_to_drop.res, refs |-> r]
        ELSE IF idx_to_drop < 0 THEN [res |-> "Panic", refs |-> r]
        ELSE [res |-> "Ok", refs |-> drop_by_index(r, idx_to_drop)]

\* drop: what it returns and the refs it leaves.
drop(r, cs, stash_id) ==
    drop_entry(r, resolve_stash_id_to_entry(r, cs, stash_id))

(***************************************************************************)
(* apply and pop                                                           *)
(***************************************************************************)
\* Merger::merge_commits: a path conflicts when both sides changed it from the
\* base, and differently.
conflicted_paths(base, ours, theirs) ==
    {p \in Paths : ours[p] # base[p] /\ theirs[p] # base[p] /\ ours[p] # theirs[p]}

\* Merger::merged_paths: the paths the stash changed, taken without conflict.
merged_paths(base, ours, theirs) ==
    {p \in Paths : theirs[p] # base[p]} \ conflicted_paths(base, ours, theirs)

\* command::checkout::checkout_index: merged paths get the merge result; a
\* conflicted path gets the "ours" side or a marker, as the build decides.
checkout_index(w, conflicted, merged, ours, theirs, side) ==
    [p \in Paths |->
        IF p \in merged THEN theirs[p]
        ELSE IF p \in conflicted
        THEN (IF side = "ours" THEN ours[p] ELSE ConflictMarker)
        ELSE w[p]]

apply_and_drop(r, cs, h, w, stash_id, side) ==
    LET e == resolve_stash_id_to_entry(r, cs, stash_id)
        base == cs[e.entry.commit.parent_ids[1]].tree
        conflicted == conflicted_paths(base, cs[h].tree, e.entry.commit.tree)
        merged == merged_paths(base, cs[h].tree, e.entry.commit.tree)
    IN  IF e.res # "Ok" THEN [res |-> e.res, refs |-> r, wt |-> w]
        ELSE IF conflicted # {}
        THEN [res |-> "MergeConflict", refs |-> r,
              wt |-> checkout_index(w, conflicted, merged, cs[h].tree,
                                    e.entry.commit.tree, side)]
        ELSE [res |-> "Ok",
              refs |-> drop_by_index(r, index_of_ref_name(e.entry.ref_name)),
              wt |-> checkout_index(w, {}, merged, cs[h].tree, e.entry.commit.tree, side)]

apply_entry_without_parent_check(r, cs, h, w, stash_entry, side) ==
    LET stash_commit == stash_entry.entry.commit
        base == IF stash_commit.parent_ids = <<>>
                THEN stash_commit.tree
                ELSE cs[stash_commit.parent_ids[1]].tree
        conflicted == conflicted_paths(base, cs[h].tree, stash_commit.tree)
        merged == merged_paths(base, cs[h].tree, stash_commit.tree)
    IN  IF stash_entry.res # "Ok" THEN [res |-> stash_entry.res, refs |-> r, wt |-> w]
        ELSE IF conflicted # {}
        THEN [res |-> "MergeConflict", refs |-> r,
              wt |-> checkout_index(w, conflicted, merged, cs[h].tree,
                                    stash_commit.tree, side)]
        ELSE [res |-> "Ok", refs |-> r,
              wt |-> checkout_index(w, {}, merged, cs[h].tree, stash_commit.tree, side)]

\* apply, lines 204-236, once the id is resolved to stash_entry.
apply_entry(r, cs, h, w, stash_entry, side) ==
    LET stash_commit == stash_entry.entry.commit
    IN  IF stash_entry.res # "Ok" THEN [res |-> stash_entry.res, refs |-> r, wt |-> w]
        ELSE IF stash_commit.parent_ids = <<>>
        THEN [res |-> "CorruptStashCommit", refs |-> r, wt |-> w]
        ELSE IF stash_commit.parent_ids[1] \notin DOMAIN cs
        THEN [res |-> "CommitIdDoesNotExist", refs |-> r, wt |-> w]
        ELSE LET base == cs[stash_commit.parent_ids[1]].tree
                 ours == cs[h].tree
                 theirs == stash_commit.tree
                 conflicted == conflicted_paths(base, ours, theirs)
                 merged == merged_paths(base, ours, theirs)
             IN  IF conflicted # {}
                 THEN [res |-> "MergeConflict", refs |-> r,
                       wt |-> checkout_index(w, conflicted, merged, ours, theirs, side)]
                 ELSE [res |-> "Ok", refs |-> r,
                       wt |-> checkout_index(w, {}, merged, ours, theirs, side)]

\* apply: what it returns, and the refs and the working tree it leaves.
apply(r, cs, h, w, stash_id, side) ==
    apply_entry(r, cs, h, w, resolve_stash_id_to_entry(r, cs, stash_id), side)

pop_drops_on_conflict(r, cs, h, w, stash_id, side) ==
    LET stash_to_pop == resolve_stash_id_to_entry(r, cs, stash_id)
        ref_to_drop == stash_to_pop.entry.ref_name
        applied == apply(r, cs, h, w, Some(ref_to_drop), side)
    IN  IF stash_to_pop.res # "Ok"
        THEN [res |-> stash_to_pop.res, refs |-> r, wt |-> w]
        ELSE [res |-> applied.res,
              refs |-> drop_by_index(applied.refs, index_of_ref_name(ref_to_drop)),
              wt |-> applied.wt]

pop_drops_newest(r, cs, h, w, stash_id, side) ==
    LET stash_to_pop == resolve_stash_id_to_entry(r, cs, stash_id)
        applied == apply(r, cs, h, w, Some(stash_to_pop.entry.ref_name), side)
    IN  IF stash_to_pop.res # "Ok"
        THEN [res |-> stash_to_pop.res, refs |-> r, wt |-> w]
        ELSE IF applied.res # "Ok"
        THEN [res |-> applied.res, refs |-> applied.refs, wt |-> applied.wt]
        ELSE [res |-> "Ok", refs |-> drop_by_index(applied.refs, 0), wt |-> applied.wt]

\* pop, lines 246-254, once the id is resolved to stash_to_pop and the apply
\* by its ref name has returned applied.
pop_applied(r, w, stash_to_pop, applied) ==
    LET idx_to_drop == index_of_ref_name(stash_to_pop.entry.ref_name)
    IN  IF stash_to_pop.res # "Ok"
        THEN [res |-> stash_to_pop.res, refs |-> r, wt |-> w]
        ELSE IF applied.res # "Ok"
        THEN [res |-> applied.res, refs |-> applied.refs, wt |-> applied.wt]
        ELSE IF idx_to_drop < 0
        THEN [res |-> "Panic", refs |-> applied.refs, wt |-> applied.wt]
        ELSE [res |-> "Ok", refs |-> drop_by_index(applied.refs, idx_to_drop),
              wt |-> applied.wt]

\* pop, lines 241-246: the apply is given the resolved entry's ref name.
pop_entry(r, cs, h, w, stash_to_pop, side) ==
    pop_applied(r, w, stash_to_pop,
                apply(r, cs, h, w, Some(stash_to_pop.entry.ref_name), side))

\* pop: what it returns, and the refs and the working tree it leaves.
pop(r, cs, h, w, stash_id, side) ==
    pop_entry(r, cs, h, w, resolve_stash_id_to_entry(r, cs, stash_id), side)

\* clear, lines 302-308: deletes the refs of the slots listed.
RECURSIVE clear_refs(_, _)
clear_refs(r, n) ==
    IF n = 0 THEN r ELSE clear_refs(delete_ref(r, stash_ref_name(n - 1)), n - 1)

\* clear, lines 302-308, when delete_ref returns Err for the slots in failed:
\* the error is logged and the loop goes on to the next slot.
RECURSIVE clear_refs_failing(_, _, _)
clear_refs_failing(r, n, failed) ==
    IF n = 0
    THEN r
    ELSE clear_refs_failing(
             IF (n - 1) \in failed THEN r ELSE delete_ref(r, stash_ref_name(n - 1)),
             n - 1, failed)

(***************************************************************************)
(* The stash ids a caller may give                                         *)
(***************************************************************************)
Prefixes(s) == {SubSeq(s, 1, n) : n \in 0..Len(s)}

StashIdStrings ==
    {usize_to_string(k) : k \in 0..MaxStashes}
    \cup {stash_display_name(k) : k \in 0..MaxStashes}
    \cup {stash_ref_name(k) : k \in 0..MaxStashes}
    \cup UNION {Prefixes(CommitIdOf(n)) : n \in 1..MaxCommits}
    \cup {<<"{", "0", "}">>, <<"{", "1", "}">>, <<"+", "1">>, STASH_AT \o <<"1">>, <<"z">>}

StashIds == {None} \cup {Some(s) : s \in StashIdStrings}

\* The ids given where the stack is shallow: absent, K and stash@{K}.
TreeStashIds ==
    {None}
    \cup {Some(usize_to_string(k)) : k \in 0..MaxTreeStashes}
    \cup {Some(stash_display_name(k)) : k \in 0..MaxTreeStashes}

\* What checkout_index leaves at a conflicted path.
ConflictSides == {"ours", "marker"}

\* The slot a stash id resolves to, -1 when it resolves to none.
IndexIn(stashes, e) ==
    IF e.res = "Ok"
    THEN (CHOOSE j \in 1..Len(stashes) : stashes[j] = e.entry) - 1
    ELSE -1

ResolvedIndex(r, cs, stash_id) ==
    LET stashes == list(r, cs)
    IN  IndexIn(stashes.val, resolve_in_stashes(stashes, stash_id))

\* The record of an operation: what ran, what it returned, the slot it resolved
\* (-1 for none) and, for a save, the working tree it found.
Done(op, res, k) == [op |-> op, res |-> res, k |-> k, w0 |-> RootCommit.tree]

Saved(w) == [op |-> "save", res |-> "Some", k |-> 0, w0 |-> w]

(***************************************************************************)
(* Part II: the add engine                                                 *)
(***************************************************************************)
\* Relative paths are sequences of components; <<>> is the repository root.
\* The files the working directory may hold: "d" can be a file, or a
\* directory with the file g and the sub-directory e.
AddFilePaths == {<<"d">>, <<"d", "g">>, <<"d", "e", "h">>, <<"d", "e", "k">>}

\* The contents a file may have, named by their hash.
Hashes == {"h1", "h2"}

\* The modification times a file may have.
Mtimes == {"t1", "t2"}

\* metadata.len() of a file with the content.
SizeOf(hash) == IF hash = "h1" THEN 1 ELSE 2

NoFile == [exists |-> FALSE, hash |-> "none", mtime |-> "none"]

FileOf(hash, mtime) == [exists |-> TRUE, hash |-> hash, mtime |-> mtime]

\* FileNode of a commit: hash, num_bytes and modification time.
NoNode == [some |-> FALSE, hash |-> "none", num_bytes |-> 0, mtime |-> "none"]

NodeOf(hash, num_bytes, mtime) ==
    [some |-> TRUE, hash |-> hash, num_bytes |-> num_bytes, mtime |-> mtime]

VARIABLES
    fs,             \* the working directory: file path -> the file, or NoFile
    head_commit,    \* whether the repository has a HEAD commit
    head_nodes,     \* the file nodes of the HEAD commit: file path -> FileNode
    merge_db,       \* the paths with a pending conflict record
    staged_db,      \* the staged DB: key (relative path) -> staged entry
    version_store,  \* the hashes that have a blob in the version store
    add_pc,         \* "idle", or "running" while an add is under way
    add_dirs,       \* the directories the walk has yet to visit
    add_tasks,      \* the files being added: path -> task
    seen_dirs,      \* the seen-dirs sets: owner (visited directory or file) -> set
    add_stats,      \* the counters of the running add
    add_puts,       \* the puts of the running add: key -> number of puts
    add_last,       \* the add that returned last: its path, counters and puts
    add_budget      \* the edits and the adds made so far

add_vars ==
    <<fs, head_commit, head_nodes, merge_db, staged_db, version_store, add_pc,
      add_dirs, add_tasks, seen_dirs, add_stats, add_puts, add_last, add_budget>>

\* Path::parent of a non-empty relative path.
parent(p) == SubSeq(p, 1, Len(p) - 1)

\* The ancestors of a relative path, the root <<>> included.
ancestors(p) == {SubSeq(p, 1, n) : n \in 0..(Len(p) - 1)}

IsStrictPrefix(a, b) == Len(a) < Len(b) /\ SubSeq(b, 1, Len(a)) = a

\* Path::is_file and Path::is_dir on the working directory f.
is_file(f, p) == p \in AddFilePaths /\ f[p].exists

is_dir(f, p) == p = <<>> \/ \E q \in AddFilePaths : f[q].exists /\ IsStrictPrefix(p, q)

\* The directories WalkDir yields from the directory p: p and those below it.
walk_dirs(f, p) ==
    {p} \cup {d \in UNION {ancestors(q) : q \in AddFilePaths} :
                 IsStrictPrefix(p, d) /\ is_dir(f, d)}

\* std::fs::read_dir(dir), the files among the entries.
child_files(f, dir) == {q \in AddFilePaths : f[q].exists /\ parent(q) = dir}

\* The keys of the staged DB: the relative paths of files and directories.
AddKeys == UNION {{SubSeq(q, 1, n) : n \in 0..Len(q)} : q \in AddFilePaths}

\* A StagedMerkleTreeNode: a file node with its status, or a directory.
NoStaged == [kind |-> "none", status |-> "none", hash |-> "none", num_bytes |-> 0, mtime |-> "none"]

StagedFile(status, hash, num_bytes, mtime) ==
    [kind |-> "file", status |-> status, hash |-> hash, num_bytes |-> num_bytes, mtime |-> mtime]

StagedDir == [kind |-> "dir", status |-> "Added", hash |-> "none", num_bytes |-> 0, mtime |-> "none"]

\* Whether the HEAD commit has the directory dir.
head_has_dir(hn, dir) == dir = <<>> \/ \E q \in AddFilePaths : hn[q].some /\ IsStrictPrefix(dir, q)

\* maybe_load_directory: the directory node of the HEAD commit, if there is
\* a HEAD commit and it has the directory.
maybe_load_directory(hc, hn, dir) == hc /\ head_has_dir(hn, dir)

\* get_file_node: the file node of the name in the directory node.
get_file_node(dir_node, hn, p) == IF dir_node THEN hn[p] ELSE NoNode

has_different_modification_time(node, mtime) == node.mtime # mtime

file_status_of_ignoring_head(file_node, file) == "Added"

\* The status determine_file_status computes for the file against its node.
file_status_of(file_node, file) ==
    IF file_node.some
    THEN IF has_different_modification_time(file_node, file.mtime)
         THEN IF file_node.hash # file.hash THEN "Modified" ELSE "Unmodified"
         ELSE IF file_node.hash # file.hash THEN "Modified" ELSE "Unmodified"
    ELSE "Added"

\* The num_bytes determine_file_status reports for the file.
file_num_bytes_of(file_node, file) ==
    IF file_node.some
    THEN IF has_different_modification_time(file_node, file.mtime)
         THEN IF file_node.hash # file.hash THEN SizeOf(file.hash) ELSE file_node.num_bytes
         ELSE file_node.num_bytes
    ELSE SizeOf(file.hash)

NoStatus == [status |-> "none", hash |-> "none", num_bytes |-> 0, mtime |-> "none", previous_file_node |-> NoNode]

determine_file_status_trusting_mtime(file_node, file) ==
    [status |-> IF file_node.some /\ ~has_different_modification_time(file_node, file.mtime)
                THEN "Unmodified"
                ELSE file_status_of(file_node, file),
     hash |-> file.hash,
     num_bytes |-> file_num_bytes_of(file_node, file),
     mtime |-> file.mtime,
     previous_file_node |-> file_node]

determine_file_status(file_node, file) ==
    [status |-> file_status_of(file_node, file),
     hash |-> file.hash,
     num_bytes |-> file_num_bytes_of(file_node, file),
     mtime |-> file.mtime,
     previous_file_node |-> file_node]

\* add_dir_to_staged_db: the directory entry is put unless seen already.
add_dir_to_staged_db(db, relative_path, seen) ==
    IF relative_path \in seen THEN db ELSE [db EXCEPT ![relative_path] = StagedDir]

\* The puts add_dir_to_staged_db makes.
add_dir_puts(puts, relative_path, seen) ==
    IF relative_path \in seen THEN puts ELSE [puts EXCEPT ![relative_path] = @ + 1]

\* p_add_file_node_to_staged_db: the file entry is put under its relative
\* path, then add_dir_to_staged_db runs for every ancestor up to the root.
p_add_file_node_to_staged_db(db, relative_path, entry, seen) ==
    [k \in AddKeys |->
        IF k \in ancestors(relative_path)
        THEN add_dir_to_staged_db([db EXCEPT ![relative_path] = entry], k, seen)[k]
        ELSE IF k = relative_path THEN entry ELSE db[k]]

\* The puts p_add_file_node_to_staged_db makes.
p_add_file_node_puts(puts, relative_path, seen) ==
    [k \in AddKeys |->
        IF k \in ancestors(relative_path)
        THEN add_dir_puts(puts, k, seen)[k]
        ELSE IF k = relative_path THEN puts[k] + 1 ELSE puts[k]]

\* The status process_add_file stages with: Modified when the file has a
\* file node in HEAD and a conflict record of its path.
process_add_file_status(file_status, relative_path, conflicts) ==
    IF file_status.previous_file_node.some /\ relative_path \in conflicts
    THEN "Modified"
    ELSE file_status.status

\* The conflict records after process_add_file marked the path resolved.
process_add_file_conflicts(file_status, relative_path, conflicts) ==
    IF file_status.previous_file_node.some
    THEN conflicts \ {relative_path}
    ELSE conflicts

store_version_dropped(store, file_status) == store

\* store_version_from_path: the version store holds the blob of the hash.
store_version_from_path(store, file_status) == store \cup {file_status.hash}

process_add_file_writes_always(file_status, relative_path, conflicts) == TRUE

\* Whether process_add_file writes the file to the staged DB: not when its
\* status is Unmodified.
process_add_file_writes(file_status, relative_path, conflicts) ==
    process_add_file_status(file_status, relative_path, conflicts) # "Unmodified"

\* The staged file node process_add_file makes of the file status.
process_add_file_node(file_status, relative_path, conflicts) ==
    StagedFile(process_add_file_status(file_status, relative_path, conflicts),
               file_status.hash, file_status.num_bytes, file_status.mtime)

\* The files an add of the path visits in the working directory f.
visited_files(f, path) ==
    {q \in AddFilePaths : f[q].exists /\ (q = path \/ IsStrictPrefix(path, q))}

\* The file status a worker determines for the file q of the working
\* directory f against the HEAD commit.
file_status_at(f, hc, hn, q) ==
    determine_file_status(get_file_node(maybe_load_directory(hc, hn, parent(q)), hn, q), f[q])

\* The visited files the add of the path writes to the staged DB.
written_files(f, hc, hn, path, conflicts) ==
    {q \in visited_files(f, path) :
        process_add_file_writes(file_status_at(f, hc, hn, q), q, conflicts)}

\* add_dir_inner and add_file_inner, from call to return: the staged DB has
\* the file node of every written file, the directory entry of every
\* directory of the walk and of every ancestor of a written file, and what
\* it held before under every other key.
staged_after_add(f, hc, hn, before, path, conflicts) ==
    [k \in AddKeys |->
        IF k \in written_files(f, hc, hn, path, conflicts)
        THEN process_add_file_node(file_status_at(f, hc, hn, k), k, conflicts)
        ELSE IF k \in (IF is_dir(f, path) THEN walk_dirs(f, path) ELSE {}) \cup
                      UNION {ancestors(q) : q \in written_files(f, hc, hn, path, conflicts)}
        THEN StagedDir
        ELSE before[k]]

\* A task of the add: a file, where its worker stands, the file status it
\* determined and the seen-dirs set it uses.
NoTask == [pc |-> "none", owner |-> <<>>, file_status |-> NoStatus]

NoPuts == [k \in AddKeys |-> 0]

\* The running add: its path, the staged DB and the conflict records it
\* started from, whether it
\* repeats the add before it with nothing changed in between, the files it
\* called the version store for, its counters.
NoRun ==
    [path |-> <<>>, before |-> [k \in AddKeys |-> NoStaged], conflicts |-> {},
     repeat |-> FALSE,
     stores |-> {}, added_files |-> 0, unchanged_files |-> 0, total_bytes |-> 0]

\* An add that returned: its mode, its result, its run and the puts it made.
NoAdd == [mode |-> "none", result |-> "none", run |-> NoRun, puts |-> NoPuts]

(***************************************************************************)
(* Part III: the tabular metadata of a re-added file                       *)
(***************************************************************************)
\* The names of the fields of a schema.
FieldNames == {"a", "b"}

\* A field of the schema computed from the data frame of the file: its
\* name, its type and the annotation computed for it, if any.
ComputedFields ==
    [name : FieldNames, dtype : {"i64", "str"}, metadata : {"none", "computed"}]

\* A field of the schema of the previous file node, with the annotation the
\* user gave it, if any.
PreviousFields == [name : FieldNames, dtype : {"str"}, metadata : {"none", "annotated"}]

\* The sequences over the set of at most n elements.
SeqsUpTo(S, n) == UNION {[1..m -> S] : m \in 0..n}

\* GenericMetadata: the tabular metadata with the fields of its schema, or
\* the metadata of another data type; Option::None is NoMetadata.
NoMetadata == [kind |-> "none", fields |-> <<>>]

OtherMetadata == [kind |-> "other", fields |-> <<>>]

MetadataTabular(fields) == [kind |-> "tabular", fields |-> fields]

VARIABLES
    tab_in,         \* the metadata computed for the file and the previous metadata
    tab_out         \* the metadata of the new file node, once constructed

tab_vars == <<tab_in, tab_out>>

\* The index of the first field of the name, or 0: Iterator::find.
RECURSIVE find_field(_, _, _)
find_field(fields, name, j) ==
    IF j > Len(fields) THEN 0
    ELSE IF fields[j].name = name THEN j
    ELSE find_field(fields, name, j + 1)

\* The field with the annotation of the previous field of its name, if any.
combine_field(field, previous_fields, j) ==
    IF j = 0 THEN field ELSE [field EXCEPT !.metadata = previous_fields[j].metadata]

maybe_construct_keeping_computed(df_metadata, previous_oxen_metadata) == df_metadata

\* maybe_construct_generic_metadata_for_tabular
maybe_construct_generic_metadata_for_tabular(df_metadata, previous_oxen_metadata) ==
    IF df_metadata.kind = "tabular" /\ previous_oxen_metadata.kind = "tabular"
    THEN MetadataTabular(
             [i \in 1..Len(df_metadata.fields) |->
                 combine_field(df_metadata.fields[i], previous_oxen_metadata.fields,
                               find_field(previous_oxen_metadata.fields,
                                          df_metadata.fields[i].name, 1))])
    ELSE df_metadata

NoTabState ==
    /\ tab_in = [df_metadata |-> NoMetadata, previous_oxen_metadata |-> OtherMetadata]
    /\ tab_out = [constructed |-> FALSE, metadata |-> NoMetadata]

(***************************************************************************)
(* Part IV: the copy-tree stash of cli/src/cmd/stash.rs                    *)
(***************************************************************************)
\* The files of the working directory the copy-tree stash is run over: two
\* files at the root, a file in a directory that has the name of the message
\* file of a slot, and a file at the root that has the name of the file a
\* slot keeps the HEAD id in.
CopyPaths ==
    {<<"a.txt">>, <<"n.txt">>, <<"docs", "message.txt">>, <<"message.txt">>,
     <<"head_commit.txt">>}

\* The paths in a slot directory: the shelved files, head_commit.txt and
\* message.txt.
HeadCommitTxt == <<"head_commit.txt">>

MessageTxt == <<"message.txt">>

SlotPaths == CopyPaths \cup {HeadCommitTxt, MessageTxt}

\* The contents of files; "" is the empty file.
CopyBytes == {"", "hello", "X", "Y"}

\* The ids of the commits, in the order the commits are made.
CopyCommitIds == <<"c0", "c1", "c2", "c3">>

\* The tree of the first commit.
FirstTree ==
    [p \in CopyPaths |->
        IF p \in {<<"a.txt">>, <<"docs", "message.txt">>, <<"head_commit.txt">>}
        THEN "hello" ELSE Absent]

VARIABLES
    copy_wt,        \* the working directory: path -> bytes, or Absent
    copy_head,      \* the id of the HEAD commit
    copy_commits,   \* the commits: id -> tree (path -> bytes, or Absent)
    copy_slots,     \* the slot directories: name (the milliseconds) -> files
    copy_clock,     \* the milliseconds of the system time
    copy_budget,    \* the edits and commits made so far
    copy_last       \* the command that ran last, what it reported and found

copy_vars ==
    <<copy_wt, copy_head, copy_commits, copy_slots, copy_clock, copy_budget, copy_last>>

\* Path::file_name
file_name(path) == path[Len(path)]

\* str::trim of the content of head_commit.txt: no content of the model has
\* white space at its ends.
trim(content) == content

\* status::status(repo).modified_files: the files of the working directory
\* that differ from the HEAD commit.
status_modified_files(w, head_tree) == {p \in CopyPaths : w[p] # Absent /\ w[p] # head_tree[p]}

\* revisions::get_version_file_from_commit_id: the content of the path in
\* the commit, or Absent (an Err) when the commit or the path is not there.
get_version_file_from_commit_id(cs, commit_id, path) ==
    IF commit_id \in DOMAIN cs THEN cs[commit_id][path] ELSE Absent

\* An empty slot directory.
NoSlotFiles == [p \in SlotPaths |-> Absent]

\* A slot directory: its files, the commit that was HEAD when it was made
\* and the paths of the files that were shelved in it.
Slot(files, pushed_at, shelved) ==
    [files |-> files, pushed_at |-> pushed_at, shelved |-> shelved]

\* push: the files of the new slot directory: message.txt if a message is
\* given, head_commit.txt with the HEAD id, then the copy of every modified
\* file at its relative path, written in this order.
slot_files(w, head_id, message, modified) ==
    [p \in SlotPaths |->
        IF p \in modified THEN w[p]
        ELSE IF p = HeadCommitTxt THEN head_id
        ELSE IF p = MessageTxt THEN message
        ELSE Absent]

\* push: every modified file reverted to its content in HEAD, removed if
\* HEAD does not have it.
reverted_tree(cs, w, head_id, modified) ==
    [p \in CopyPaths |->
        IF p \in modified THEN get_version_file_from_commit_id(cs, head_id, p) ELSE w[p]]

\* stash_dirs.sort_unstable() and stash_dirs.last(): the names have the
\* same number of digits, the last is the one of the greatest time.
RECURSIVE decimal(_)
decimal(n) == IF n < 10 THEN <<n>> ELSE Append(decimal(n \div 10), n % 10)

\* format!("stash_{}", timestamp): the digits that follow the prefix.
stash_name(timestamp) == decimal(timestamp)

\* The order of strings sort_unstable sorts by: a before b, or a = b.
RECURSIVE str_le(_, _)
str_le(a, b) ==
    IF a = <<>> THEN TRUE
    ELSE IF b = <<>> THEN FALSE
    ELSE IF a[1] # b[1] THEN a[1] < b[1]
    ELSE str_le(Tail(a), Tail(b))

latest_stash_name_oldest(slots) ==
    CHOOSE n \in DOMAIN slots :
        \A m \in DOMAIN slots : str_le(stash_name(n), stash_name(m))

latest_stash_name(slots) ==
    CHOOSE n \in DOMAIN slots :
        \A m \in DOMAIN slots : str_le(stash_name(m), stash_name(n))

\* pop, apply: the paths of the slot directory that are not skipped as meta
\* files.
is_meta_file(path) == file_name(path) \in {"head_commit.txt", "message.txt"}

stashed_files(files) == {p \in SlotPaths : files[p] # Absent /\ ~is_meta_file(p)}

\* pop, apply: the local content compared with the base content; a file
\* that is not there is treated as empty.
local_content(l) == IF l = Absent THEN "" ELSE l

\* pop, apply: what is done with one shelved file of base content b (Absent
\* if the lookup in the base commit fails), local content l (Absent if the
\* file does not exist) and stashed content s.
merge_file_comparing_new_files(b, l, s) ==
    IF b # Absent
    THEN IF local_content(l) # b /\ s # b
         THEN IF local_content(l) # s THEN "conflict" ELSE "write"
         ELSE IF s # b THEN "write" ELSE "keep"
    ELSE IF l # Absent /\ l # s THEN "conflict" ELSE "write"

merge_file(b, l, s) ==
    IF b # Absent
    THEN IF local_content(l) # b /\ s # b
         THEN IF local_content(l) # s THEN "conflict" ELSE "write"
         ELSE IF s # b THEN "write" ELSE "keep"
    ELSE IF l # Absent THEN "conflict" ELSE "write"

\* pop, apply: the base commit id read from head_commit.txt of the slot.
base_commit_id(files) == trim(files[HeadCommitTxt])

merge_of(cs, w, files, p) ==
    merge_file(get_version_file_from_commit_id(cs, base_commit_id(files), p), w[p], files[p])

conflicted_files(cs, w, files) ==
    {p \in stashed_files(files) : merge_of(cs, w, files, p) = "conflict"}

merged_tree(cs, w, files) ==
    [p \in CopyPaths |->
        IF p \in stashed_files(files) /\ merge_of(cs, w, files, p) = "write"
        THEN files[p] ELSE w[p]]

\* pop: the slot directories after the loop over the files of the slot: the
\* slot is removed if no conflict was recorded.
remaining_slots_always_removed(slots, name, conflicts) ==
    [n \in DOMAIN slots \ {name} |-> slots[n]]

remaining_slots(slots, name, conflicts) ==
    IF conflicts = {} THEN [n \in DOMAIN slots \ {name} |-> slots[n]] ELSE slots

\* What a command of the copy-tree stash leaves behind for inspection: the
\* command, the slot it made or applied, the conflicts it reported, the
\* working directory and the slots it started from.
NoPrev == [op |-> "none", name |-> 0, conflicted_files |-> {}]

CopyDone(op, name, conflicts, modified) ==
    [op |-> op, name |-> name, conflicted_files |-> conflicts, modified |-> modified,
     wt0 |-> copy_wt, slots0 |-> copy_slots, head0 |-> copy_head, result |-> "Ok",
     prev |-> NoPrev, todo |-> {}]

\* The same, with the apply that ran right before the command when the run
\* is one that keeps track of it.
CopyDoneAfter(track, op, name, conflicts) ==
    [CopyDone(op, name, conflicts, {}) EXCEPT
        !.prev = IF track /\ copy_last.op = "apply"
                 THEN [op |-> copy_last.op, name |-> copy_last.name,
                       conflicted_files |-> copy_last.conflicted_files]
                 ELSE NoPrev]

\* Nothing is kept of an edit or a commit of the user.
NoCopyDone ==
    [op |-> "none", name |-> 0, conflicted_files |-> {}, modified |-> {},
     wt0 |-> FirstTree, slots0 |-> [n \in {} |-> NoSlotFiles], head0 |-> "c0",
     result |-> "Ok", prev |-> NoPrev, todo |-> {}]

\* The copy-tree stash before its first command: the first commit checked
\* out, no slot.
NoCopyState ==
    /\ copy_wt = FirstTree
    /\ copy_head = "c0"
    /\ copy_commits = [c \in {"c0"} |-> FirstTree]
    /\ copy_slots = [n \in {} |-> NoSlotFiles]
    /\ copy_clock = 1
    /\ copy_budget = [edits |-> 0, commits |-> 0]
    /\ copy_last = NoCopyDone

(***************************************************************************)
(* Part V: add of a glob, add and add_files of add.rs                      *)
(***************************************************************************)
\* The paths add is called with, as sequences of components; the component
\* "*" of a pattern matches any one component.
GlobPatterns == {<<"d", "*">>, <<"d", "e", "*">>, <<"d", "g">>, <<"d", "e", "h">>}

VARIABLES
    glob_fs,        \* the working directory: file path -> the file, or NoFile
    glob_head,      \* the file nodes of the HEAD commit: file path -> FileNode
    glob_staged,    \* the staged DB: key (relative path) -> staged entry
    glob_run,       \* the add that runs, or that returned last
    glob_budget     \* the edits and the adds made so far

glob_vars == <<glob_fs, glob_head, glob_staged, glob_run, glob_budget>>

\* util::fs::is_glob_path
is_glob_path(path) == \E i \in 1..Len(path) : path[i] = "*"

\* Whether the pattern matches the path, component by component.
glob_matches(pattern, path) ==
    /\ Len(pattern) = Len(path)
    /\ \A i \in 1..Len(pattern) : pattern[i] = "*" \/ pattern[i] = path[i]

\* glob(path_str): the files and directories of the working directory the
\* pattern matches.
glob(f, pattern) ==
    {e \in AddKeys : (is_file(f, e) \/ (e # <<>> /\ is_dir(f, e))) /\ glob_matches(pattern, e)}

\* repositories::commits::search_entries: the entries of the HEAD commit the
\* pattern matches.
search_entries(hn, pattern) ==
    {e \in AddFilePaths : hn[e].some /\ glob_matches(pattern, e)}

\* add, lines 66-86: the paths add_files is called with.
add_paths(f, hn, path) ==
    IF is_glob_path(path) THEN glob(f, path) \cup search_entries(hn, path) ELSE {path}

\* The staged entry of a file staged for removal.
StagedRemoved(node) == StagedFile("Removed", node.hash, node.num_bytes, node.mtime)

\* core::v_latest::rm::rm_with_staged_db with opts.recursive: every file of
\* the HEAD commit at or under one of the paths that is not in the working
\* directory is staged for removal.
rm_with_staged_db(paths, f, hn, db) ==
    [k \in AddKeys |->
        IF /\ k \in AddFilePaths
           /\ hn[k].some
           /\ ~f[k].exists
           /\ \E p \in paths : p = k \/ IsStrictPrefix(p, k)
        THEN StagedRemoved(hn[k])
        ELSE db[k]]

\* No add of a glob has run.
NoGlobRun == [pc |-> "idle", path |-> <<>>, paths |-> {}, todo |-> {}, added |-> {}, rm |-> FALSE]

\* No repository is opened for the add of a glob: no file, no file node and
\* no staged entry.
NoGlobState ==
    /\ glob_fs = [q \in {} |-> NoFile]
    /\ glob_head = [q \in {} |-> NoNode]
    /\ glob_staged = [k \in {} |-> NoStaged]
    /\ glob_run = NoGlobRun
    /\ glob_budget = [edits |-> 0, adds |-> 0]

(***************************************************************************)
(* Part VI: the conflict readers of lib/src/core/merge                     *)
(***************************************************************************)
\* The paths conflicts are recorded and asked for.
ReaderPaths == {<<"a">>, <<"d", "a">>, <<"d", "b">>}

\* Path::to_str: the components joined by the separator.
RECURSIVE path_to_str(_)
path_to_str(path) ==
    IF Len(path) = 1 THEN <<path[1]>>
    ELSE <<path[1], "/">> \o path_to_str(Tail(path))

\* The keys of the conflict DB, in the order its iterator yields them.
ReaderKeys == <<path_to_str(<<"a">>), path_to_str(<<"d", "a">>), path_to_str(<<"d", "b">>)>>

\* A NodeMergeConflict: the hashes of the base entry and of the merge entry.
ReaderConflicts ==
    {[base_entry |-> "h1", merge_entry |-> "h2"], [base_entry |-> "h2", merge_entry |-> "h1"]}

\* serde_json::to_string of a conflict, as the writer of the DB stores it.
conflict_to_json(conflict) == <<"{", conflict.base_entry, ",", conflict.merge_entry, "}">>

\* serde_json::from_str(str::from_utf8(value)?)?: the conflict, or an error.
conflict_from_json(value) ==
    IF Len(value) = 5 /\ value[1] = "{" /\ value[3] = "," /\ value[5] = "}"
    THEN [res |-> "Ok", val |-> [base_entry |-> value[2], merge_entry |-> value[4]]]
    ELSE [res |-> "Err", val |-> <<>>]

\* Result<Option<NodeMergeConflict>, OxenError>
ReaderNone == [res |-> "Ok", some |-> FALSE, val |-> <<>>]

ReaderSome(conflict) == [res |-> "Ok", some |-> TRUE, val |-> conflict]

ReaderErr == [res |-> "Err", some |-> FALSE, val |-> <<>>]

get_conflict_of_any_key(db, path) ==
    IF DOMAIN db = {}
    THEN ReaderNone
    ELSE ReaderSome(conflict_from_json(db[CHOOSE k \in DOMAIN db : TRUE]).val)

\* NodeMergeConflictDBReader::get_conflict
get_conflict(db, path) ==
    LET key == path_to_str(path)
    IN  IF key \in DOMAIN db
        THEN IF conflict_from_json(db[key]).res = "Ok"
             THEN ReaderSome(conflict_from_json(db[key]).val)
             ELSE ReaderErr
        ELSE ReaderNone

\* NodeMergeConflictDBReader::has_file
has_file(db, path) ==
    IF get_conflict(db, path).res = "Ok"
    THEN [res |-> "Ok", val |-> get_conflict(db, path).some]
    ELSE [res |-> "Err", val |-> FALSE]

\* NodeMergeConflictDBReader::has_conflicts
has_conflicts(db) == [res |-> "Ok", val |-> Cardinality(DOMAIN db) > 0]

\* NodeMergeConflictDBReader::list_conflicts, over the keys from the i-th on.
RECURSIVE list_conflicts_from(_, _)
list_conflicts_from(db, i) ==
    IF i > Len(ReaderKeys) THEN [res |-> "Ok", val |-> <<>>]
    ELSE IF ReaderKeys[i] \notin DOMAIN db THEN list_conflicts_from(db, i + 1)
    ELSE IF conflict_from_json(db[ReaderKeys[i]]).res # "Ok" THEN [res |-> "Err", val |-> <<>>]
    ELSE LET rest == list_conflicts_from(db, i + 1)
         IN  [res |-> rest.res,
              val |-> IF rest.res = "Ok"
                      THEN <<conflict_from_json(db[ReaderKeys[i]]).val>> \o rest.val
                      ELSE <<>>]

list_conflicts(db) == list_conflicts_from(db, 1)

VARIABLES
    reader_dir,     \* whether the merge directory exists
    reader_db,      \* the conflict DB: key -> value
    reader_open,    \* whether a reader has the DB open
    reader_last,    \* the query answered last
    reader_budget   \* the writes made so far

reader_vars == <<reader_dir, reader_db, reader_open, reader_last, reader_budget>>

NoQuery == [op |-> "none", path |-> <<>>, result |-> ReaderNone]

\* No merge has run: there is no merge directory.
NoReaderState ==
    /\ reader_dir = FALSE
    /\ reader_db = [k \in {} |-> <<>>]
    /\ reader_open = FALSE
    /\ reader_last = NoQuery
    /\ reader_budget = 0

(***************************************************************************)
(* Part VII: save and drop of lib/src/command/stash.rs, one ref write at a *)
(* time                                                                    *)
(***************************************************************************)
VARIABLES
    step            \* the save or drop that runs, or that ran last

step_vars == <<step>>

\* No save or drop runs or has run: pc is the place in the code, i the
\* index of the loop, existing_stashes the list read before the shift,
\* stash_commit the commit save wrote, w0 and refs0 the working tree and the
\* refs the command found, survivors the commits it is to keep, reset whether
\* save reset a file of the working tree.
NoStep ==
    [pc |-> "idle", op |-> "none", i |-> 0, existing_stashes |-> <<>>,
     stash_commit |-> <<>>, w0 |-> RootCommit.tree, refs0 |-> [n \in {} |-> <<>>],
     survivors |-> {}, reset |-> FALSE]

NoStepState == step = NoStep

\* The commits the stash refs point to.
ref_commits(r) == {r[n] : n \in DOMAIN r}

\* save, lines 101-108, one iteration: the commit of the i-th listed stash,
\* slot i-1, is written at ref i.
save_shift_ref(r, existing_stashes, i) ==
    create_ref(r, stash_ref_name(i), existing_stashes[i].commit.id)

save_reset_enabled_before_store(pc) == pc \in {"save_shift", "save_reset"}

\* save, lines 110-122: reset_hard is called after create_ref of ref 0 has
\* returned Ok.
save_reset_enabled(pc) == pc = "save_reset"

drop_shift_first_deletes(r, i, commit_id) == delete_ref(r, stash_ref_name(i))

\* drop_by_index, line 269: the first write of an iteration of the shift.
drop_shift_first(r, i, commit_id) == create_ref(r, stash_ref_name(i - 1), commit_id)

\* drop_by_index, line 270: the second write of an iteration of the shift.
drop_shift_second(r, i) == delete_ref(r, stash_ref_name(i))

\* What the commands of one part leave alone: the state of the other parts.
outside_stash == <<add_vars, tab_vars, copy_vars, glob_vars, reader_vars, step_vars>>

outside_add == <<vars, tab_vars, copy_vars, glob_vars, reader_vars, step_vars>>

outside_tab == <<vars, add_vars, copy_vars, glob_vars, reader_vars, step_vars>>

outside_copy == <<vars, add_vars, tab_vars, glob_vars, reader_vars, step_vars>>

outside_reader == <<vars, add_vars, tab_vars, copy_vars, glob_vars, step_vars>>

outside_step == <<add_vars, tab_vars, copy_vars, glob_vars, reader_vars>>

outside_glob == <<vars, add_vars, tab_vars, copy_vars, reader_vars, step_vars>>

all_vars == <<vars, add_vars, tab_vars, copy_vars, glob_vars, reader_vars, step_vars>>

\* No repository is opened for add: no HEAD commit, no run, and every map
\* of the engine (files, nodes, staged entries, tasks, counters) is empty.
NoAddState ==
    /\ fs = <<>>
    /\ head_commit = FALSE
    /\ head_nodes = <<>>
    /\ merge_db = {}
    /\ staged_db = <<>>
    /\ version_store = {}
    /\ add_pc = "idle"
    /\ add_dirs = {}
    /\ add_tasks = <<>>
    /\ seen_dirs = <<>>
    /\ add_stats = <<>>
    /\ add_puts = <<>>
    /\ add_last = <<>>
    /\ add_budget = <<>>

(***************************************************************************)
(* The state machine                                                       *)
(***************************************************************************)
NoStashState ==
    /\ refs = [n \in {} |-> <<>>]
    /\ commits = [c \in {RootCommit.id} |-> RootCommit]
    /\ n_commits = 1
    /\ head = RootCommit.id
    /\ on_branch = TRUE
    /\ wt = RootCommit.tree
    /\ staged = {}
    /\ last = Done("init", "Ok", -1)

Init ==
    /\ NoStashState
    /\ NoAddState
    /\ NoTabState
    /\ NoCopyState
    /\ NoGlobState
    /\ NoReaderState
    /\ NoStepState

\* The user writes a file of the working directory.
WriteFile(p, bytes) ==
    /\ wt[p] # bytes
    /\ wt' = [wt EXCEPT ![p] = bytes]
    /\ last' = Done("edit", "Ok", -1)
    /\ UNCHANGED <<refs, commits, n_commits, head, on_branch, staged>>
    /\ UNCHANGED outside_stash

\* The user removes a file of the working directory.
RemoveFile(p) ==
    /\ wt[p] # Absent
    /\ wt' = [wt EXCEPT ![p] = Absent]
    /\ staged' = staged \ {p}
    /\ last' = Done("edit", "Ok", -1)
    /\ UNCHANGED <<refs, commits, n_commits, head, on_branch>>
    /\ UNCHANGED outside_stash

\* The user stages an untracked file.
StageFile(p) ==
    /\ p \in untracked_files
    /\ staged' = staged \cup {p}
    /\ last' = Done("edit", "Ok", -1)
    /\ UNCHANGED <<refs, commits, n_commits, head, on_branch, wt>>
    /\ UNCHANGED outside_stash

\* The user commits the working directory on the branch.
CommitAll(max_commits) ==
    /\ on_branch
    /\ ~is_clean
    /\ n_commits <= max_commits
    /\ LET c == [id |-> CommitIdOf(n_commits), parent_ids |-> <<head>>, tree |-> wt]
       IN  /\ commits' = [x \in DOMAIN commits \cup {c.id} |->
                             IF x = c.id THEN c ELSE commits[x]]
           /\ head' = c.id
    /\ n_commits' = n_commits + 1
    /\ staged' = {}
    /\ last' = Done("commit", "Ok", -1)
    /\ UNCHANGED <<refs, on_branch, wt>>
    /\ UNCHANGED outside_stash

\* The user detaches HEAD from the branch, or checks the branch out again.
SwitchBranch ==
    /\ on_branch' = ~on_branch
    /\ last' = Done("edit", "Ok", -1)
    /\ UNCHANGED <<refs, commits, n_commits, head, wt, staged>>
    /\ UNCHANGED outside_stash

\* save(repo, message)
Save(max_stashes, max_commits) ==
    /\ IF save_returns_none
       THEN /\ last' = Done("save", "None", -1)
            /\ UNCHANGED <<refs, commits, n_commits, head, on_branch, wt, staged>>
       ELSE IF current_branch_is_none
       THEN /\ last' = Done("save", "MustBeOnBranchToStash", -1)
            /\ UNCHANGED <<refs, commits, n_commits, head, on_branch, wt, staged>>
       ELSE LET stash_commit == [id |-> CommitIdOf(n_commits),
                                 parent_ids |-> <<head>>,
                                 tree |-> stash_index_tree]
                cs == [x \in DOMAIN commits \cup {stash_commit.id} |->
                          IF x = stash_commit.id THEN stash_commit ELSE commits[x]]
                existing_stashes == list_stashes_raw(refs, cs)
                reset == reset_hard(save_reset_tree)
            IN  /\ n_commits <= max_commits
                /\ Len(existing_stashes.val) < max_stashes
                /\ n_commits' = n_commits + 1
                /\ IF existing_stashes.err
                   THEN /\ commits' = Reachable(refs, cs, head)
                        /\ last' = Done("save", "CommitIdDoesNotExist", -1)
                        /\ UNCHANGED <<refs, wt, staged>>
                   ELSE /\ refs' = save_store_ref(refs, existing_stashes.val, stash_commit.id)
                        /\ commits' = Reachable(refs', cs, head)
                        /\ wt' = reset.wt
                        /\ staged' = reset.staged
                        /\ last' = Saved(wt)
                /\ UNCHANGED <<head, on_branch>>
    /\ UNCHANGED outside_stash

\* apply(repo, stash_id)
Apply(stash_id) ==
    /\ \E side \in ConflictSides :
           LET a == apply(refs, commits, head, wt, stash_id, side)
           IN  /\ a.res # "MergeConflict" => side = "ours"
               /\ refs' = a.refs
               /\ wt' = a.wt
               /\ last' = Done("apply", a.res, ResolvedIndex(refs, commits, stash_id))
               /\ commits' = Reachable(refs', commits, head)
               /\ UNCHANGED <<n_commits, head, on_branch, staged>>
    /\ UNCHANGED outside_stash

\* pop(repo, stash_id)
Pop(stash_id) ==
    /\ \E side \in ConflictSides :
           LET a == pop(refs, commits, head, wt, stash_id, side)
           IN  /\ a.res # "MergeConflict" => side = "ours"
               /\ refs' = a.refs
               /\ wt' = a.wt
               /\ last' = Done("pop", a.res, ResolvedIndex(refs, commits, stash_id))
               /\ commits' = Reachable(refs', commits, head)
               /\ UNCHANGED <<n_commits, head, on_branch, staged>>
    /\ UNCHANGED outside_stash

\* drop(repo, stash_id)
Drop(stash_id) ==
    /\ LET d == drop(refs, commits, stash_id)
       IN  /\ refs' = d.refs
           /\ last' = Done("drop", d.res, ResolvedIndex(refs, commits, stash_id))
           /\ commits' = Reachable(refs', commits, head)
           /\ UNCHANGED <<n_commits, head, on_branch, wt, staged>>
    /\ UNCHANGED outside_stash

\* clear(repo)
Clear ==
    /\ LET stashes == list_stashes_raw(refs, commits)
       IN  /\ IF stashes.err
              THEN /\ last' = Done("clear", "CommitIdDoesNotExist", -1)
                   /\ UNCHANGED refs
              ELSE /\ refs' = clear_refs(refs, Len(stashes.val))
                   /\ last' = Done("clear", "Ok", -1)
           /\ commits' = Reachable(refs', commits, head)
           /\ UNCHANGED <<n_commits, head, on_branch, wt, staged>>
    /\ UNCHANGED outside_stash

\* The operations of the stash, under every stash id.
StashOps(ids) ==
    \/ \E stash_id \in ids : Apply(stash_id)
    \/ \E stash_id \in ids : Pop(stash_id)
    \/ \E stash_id \in ids : Drop(stash_id)
    \/ Clear

(***************************************************************************)
(* The state machine of the add engine                                     *)
(***************************************************************************)
\* The user writes a file of the working directory, where no directory is
\* and under no file: a new file has the later modification time, a file
\* written over has either.
WriteAddFile(paths, max_edits) ==
    /\ add_pc = "idle"
    /\ add_budget.edits < max_edits
    /\ \E p \in paths, hash \in Hashes, mtime \in Mtimes :
           /\ ~is_dir(fs, p)
           /\ \A a \in ancestors(p) : ~is_file(fs, a)
           /\ ~is_file(fs, p) => mtime = "t2"
           /\ fs[p] # FileOf(hash, mtime)
           /\ fs' = [fs EXCEPT ![p] = FileOf(hash, mtime)]
    /\ add_budget' = [add_budget EXCEPT !.edits = @ + 1, !.changed = TRUE]
    /\ UNCHANGED <<head_commit, head_nodes, merge_db, staged_db, version_store, add_pc,
                   add_dirs, add_tasks, seen_dirs, add_stats, add_puts, add_last>>
    /\ UNCHANGED outside_add

\* The user removes a file of the working directory.
RemoveAddFile(paths, max_edits) ==
    /\ add_pc = "idle"
    /\ add_budget.edits < max_edits
    /\ \E p \in paths :
           /\ is_file(fs, p)
           /\ fs' = [fs EXCEPT ![p] = NoFile]
    /\ add_budget' = [add_budget EXCEPT !.edits = @ + 1, !.changed = TRUE]
    /\ UNCHANGED <<head_commit, head_nodes, merge_db, staged_db, version_store, add_pc,
                   add_dirs, add_tasks, seen_dirs, add_stats, add_puts, add_last>>
    /\ UNCHANGED outside_add

\* A merge records a conflict for a path it checked out into the working
\* directory.
RecordConflict(paths, max_edits) ==
    /\ add_pc = "idle"
    /\ add_budget.edits < max_edits
    /\ \E p \in paths :
           /\ head_commit
           /\ is_file(fs, p)
           /\ p \notin merge_db
           /\ merge_db' = merge_db \cup {p}
    /\ add_budget' = [add_budget EXCEPT !.edits = @ + 1, !.changed = TRUE]
    /\ UNCHANGED <<fs, head_commit, head_nodes, staged_db, version_store, add_pc,
                   add_dirs, add_tasks, seen_dirs, add_stats, add_puts, add_last>>
    /\ UNCHANGED outside_add

\* add_files, for one path: a directory starts the walk of process_add_dir,
\* a file starts add_file_inner.
AddBegin(paths, max_adds) ==
    /\ add_pc = "idle"
    /\ add_budget.adds < max_adds
    /\ \E path \in paths :
           /\ is_dir(fs, path) \/ is_file(fs, path)
           /\ add_pc' = IF is_dir(fs, path) THEN "dir" ELSE "file"
           /\ add_dirs' = IF is_dir(fs, path) THEN walk_dirs(fs, path) ELSE {}
           /\ add_tasks' = [q \in AddFilePaths |->
                               IF q = path /\ is_file(fs, path)
                               THEN [pc |-> "status", owner |-> path, file_status |-> NoStatus]
                               ELSE NoTask]
           /\ add_stats' = [NoRun EXCEPT
                               !.path = path,
                               !.before = staged_db,
                               !.conflicts = merge_db,
                               !.repeat = /\ add_last.mode # "none"
                                          /\ add_last.run.path = path
                                          /\ ~add_budget.changed]
    /\ seen_dirs' = [k \in AddKeys |-> {}]
    /\ add_puts' = NoPuts
    /\ add_budget' = [add_budget EXCEPT !.adds = @ + 1]
    /\ UNCHANGED <<fs, head_commit, head_nodes, merge_db, staged_db, version_store, add_last>>
    /\ UNCHANGED outside_add

\* process_add_dir, one directory of the walk: its own entry is put with a
\* new seen-dirs set, and a worker starts for each file in it.
VisitDir ==
    /\ add_pc = "dir"
    /\ \E dir \in add_dirs :
           /\ add_dirs' = add_dirs \ {dir}
           /\ staged_db' = add_dir_to_staged_db(staged_db, dir, {})
           /\ add_puts' = add_dir_puts(add_puts, dir, {})
           /\ seen_dirs' = [seen_dirs EXCEPT ![dir] = {dir}]
           /\ add_tasks' = [q \in AddFilePaths |->
                               IF q \in child_files(fs, dir)
                               THEN [pc |-> "status", owner |-> dir, file_status |-> NoStatus]
                               ELSE add_tasks[q]]
    /\ UNCHANGED <<fs, head_commit, head_nodes, merge_db, version_store, add_pc,
                   add_stats, add_last, add_budget>>
    /\ UNCHANGED outside_add

\* A worker determines the status of its file against the HEAD commit and
\* stores the version of the file: store_version_from_path.
StoreVersion ==
    /\ \E p \in AddFilePaths :
           /\ add_tasks[p].pc = "status"
           /\ add_tasks' = [add_tasks EXCEPT
                  ![p].pc = "process",
                  ![p].file_status =
                      determine_file_status(
                          get_file_node(maybe_load_directory(head_commit, head_nodes, parent(p)),
                                        head_nodes, p),
                          fs[p])]
           /\ version_store' = store_version_from_path(version_store, add_tasks'[p].file_status)
           /\ add_stats' = [add_stats EXCEPT !.stores = @ \cup {p}]
    /\ UNCHANGED <<fs, head_commit, head_nodes, merge_db, staged_db, add_pc,
                   add_dirs, seen_dirs, add_puts, add_last, add_budget>>
    /\ UNCHANGED outside_add

\* A worker runs process_add_file and counts the result.
ProcessAddFile ==
    /\ \E p \in AddFilePaths :
           /\ add_tasks[p].pc = "process"
           /\ add_tasks' = [add_tasks EXCEPT ![p].pc = "done"]
           /\ merge_db' = process_add_file_conflicts(add_tasks[p].file_status, p, merge_db)
           /\ IF process_add_file_writes(add_tasks[p].file_status, p, merge_db)
              THEN /\ staged_db' = p_add_file_node_to_staged_db(
                                       staged_db, p,
                                       process_add_file_node(add_tasks[p].file_status, p, merge_db),
                                       seen_dirs[add_tasks[p].owner])
                   /\ add_puts' = p_add_file_node_puts(add_puts, p, seen_dirs[add_tasks[p].owner])
                   /\ seen_dirs' = [seen_dirs EXCEPT ![add_tasks[p].owner] = @ \cup ancestors(p)]
                   /\ add_stats' = [add_stats EXCEPT
                                       !.added_files = @ + 1,
                                       !.total_bytes = @ + add_tasks[p].file_status.num_bytes]
              ELSE /\ add_stats' = [add_stats EXCEPT
                                       !.unchanged_files = IF add_pc = "dir" THEN @ + 1 ELSE @]
                   /\ UNCHANGED <<staged_db, add_puts, seen_dirs>>
    /\ UNCHANGED <<fs, head_commit, head_nodes, version_store, add_pc, add_dirs, add_last,
                   add_budget>>
    /\ UNCHANGED outside_add

workers_finished_with_walk(dirs, tasks) == dirs = {}

\* par_bridge().try_for_each and par_iter().for_each return when the walk
\* has yielded every directory and every worker of every directory is over.
workers_finished(dirs, tasks) ==
    /\ dirs = {}
    /\ \A q \in AddFilePaths : tasks[q].pc \in {"none", "done", "failed"}

\* The add returns once the walk is over and every worker has finished.
AddEnd ==
    /\ add_pc # "idle"
    /\ workers_finished(add_dirs, add_tasks)
    /\ add_last' = [mode |-> add_pc, result |-> "Ok", run |-> add_stats, puts |-> add_puts]
    /\ add_pc' = "idle"
    /\ add_tasks' = [q \in AddFilePaths |-> NoTask]
    /\ seen_dirs' = [k \in AddKeys |-> {}]
    /\ add_stats' = NoRun
    /\ add_puts' = NoPuts
    /\ add_budget' = [add_budget EXCEPT !.changed = FALSE]
    /\ UNCHANGED <<fs, head_commit, head_nodes, merge_db, staged_db, version_store, add_dirs>>
    /\ UNCHANGED outside_add

\* The add engine starts over a repository without a HEAD commit and an
\* empty working directory, or over one whose HEAD commit has the file
\* d/e/h, checked out and with its blob in the version store.
HeadFiles == {<<"d", "e", "h">>}

AddInit ==
    /\ NoStashState
    /\ NoTabState
    /\ NoCopyState
    /\ NoGlobState
    /\ NoReaderState
    /\ NoStepState
    /\ head_commit \in BOOLEAN
    /\ head_nodes = [q \in AddFilePaths |->
                        IF head_commit /\ q \in HeadFiles
                        THEN NodeOf("h1", SizeOf("h1"), "t1")
                        ELSE NoNode]
    /\ fs = [q \in AddFilePaths |->
                IF head_nodes[q].some THEN FileOf(head_nodes[q].hash, head_nodes[q].mtime)
                ELSE NoFile]
    /\ merge_db = {}
    /\ staged_db = [k \in AddKeys |-> NoStaged]
    /\ version_store = {head_nodes[q].hash : q \in {x \in AddFilePaths : head_nodes[x].some}}
    /\ add_pc = "idle"
    /\ add_dirs = {}
    /\ add_tasks = [q \in AddFilePaths |-> NoTask]
    /\ seen_dirs = [k \in AddKeys |-> {}]
    /\ add_stats = NoRun
    /\ add_puts = NoPuts
    /\ add_last = NoAdd
    /\ add_budget = [edits |-> 0, adds |-> 0, changed |-> FALSE]

\* The add stops with the result: an error returned, or a panic.
AddStops(result) ==
    /\ add_last' = [mode |-> add_pc, result |-> result, run |-> add_stats, puts |-> add_puts]
    /\ add_pc' = "idle"
    /\ add_dirs' = {}
    /\ add_tasks' = [q \in AddFilePaths |-> NoTask]
    /\ seen_dirs' = [k \in AddKeys |-> {}]
    /\ add_stats' = NoRun
    /\ add_puts' = NoPuts
    /\ add_budget' = [add_budget EXCEPT !.changed = FALSE]

\* determine_file_status fails for a file of the walk (its metadata cannot
\* be read, or it cannot be hashed): the worker logs it and returns.
DetermineFileStatusFails ==
    /\ add_pc = "dir"
    /\ \E p \in AddFilePaths :
           /\ add_tasks[p].pc = "status"
           /\ add_tasks' = [add_tasks EXCEPT ![p].pc = "failed"]
    /\ UNCHANGED <<fs, head_commit, head_nodes, merge_db, staged_db, version_store, add_pc,
                   add_dirs, seen_dirs, add_stats, add_puts, add_last, add_budget>>
    /\ UNCHANGED outside_add

\* store_version_from_path fails for a file of the walk: the worker unwraps
\* the error and panics.
StoreVersionPanics ==
    /\ add_pc = "dir"
    /\ \E p \in AddFilePaths :
           /\ add_tasks[p].pc = "status"
           /\ add_tasks' = [add_tasks EXCEPT ![p].pc = "panicked"]
    /\ UNCHANGED <<fs, head_commit, head_nodes, merge_db, staged_db, version_store, add_pc,
                   add_dirs, seen_dirs, add_stats, add_puts, add_last, add_budget>>
    /\ UNCHANGED outside_add

\* process_add_file fails for a file of the walk after the conflict check
\* (the metadata of the file cannot be read): the worker logs the error.
ProcessAddFileFails ==
    /\ add_pc = "dir"
    /\ \E p \in AddFilePaths :
           /\ add_tasks[p].pc = "process"
           /\ merge_db' = process_add_file_conflicts(add_tasks[p].file_status, p, merge_db)
           /\ add_tasks' = [add_tasks EXCEPT ![p].pc = "failed"]
    /\ UNCHANGED <<fs, head_commit, head_nodes, staged_db, version_store, add_pc,
                   add_dirs, seen_dirs, add_stats, add_puts, add_last, add_budget>>
    /\ UNCHANGED outside_add

\* A panic of a worker ends the add of the directory: at once where a panic
\* aborts, after the workers that run have finished where it unwinds.
AddPanics ==
    /\ add_pc = "dir"
    /\ \E p \in AddFilePaths : add_tasks[p].pc = "panicked"
    /\ AddStops("panic")
    /\ UNCHANGED <<fs, head_commit, head_nodes, merge_db, staged_db, version_store>>
    /\ UNCHANGED outside_add

\* add_file_inner fails in determine_file_status or store_version_from_path
\* and returns the error.
AddFileFails ==
    /\ add_pc = "file"
    /\ \E p \in AddFilePaths : add_tasks[p].pc = "status"
    /\ AddStops("Err")
    /\ UNCHANGED <<fs, head_commit, head_nodes, merge_db, staged_db, version_store>>
    /\ UNCHANGED outside_add

\* The failures of an add.
AddFailures ==
    \/ DetermineFileStatusFails
    \/ StoreVersionPanics
    \/ ProcessAddFileFails
    \/ AddPanics
    \/ AddFileFails

\* The workers of an add.
AddWorkers ==
    \/ VisitDir
    \/ StoreVersion
    \/ ProcessAddFile
    \/ AddEnd


\* The files the user edits where no path changes between file and directory.
TreeFilePaths == {<<"d", "g">>, <<"d", "e", "h">>, <<"d", "e", "k">>}

\* Adds of files and directories between edits of the files.
AddNext ==
    \/ WriteAddFile(TreeFilePaths, MaxAddEdits)
    \/ RemoveAddFile(TreeFilePaths, MaxAddEdits)
    \/ RecordConflict(TreeFilePaths, MaxAddEdits)
    \/ AddBegin(AddKeys, MaxAdds)
    \/ AddWorkers

AddSpec == AddInit /\ [][AddNext]_all_vars

\* Adds in which the reading, the hashing or the storing of a file may fail.
AddFaultNext ==
    \/ WriteAddFile(TreeFilePaths, MaxAddFaultEdits)
    \/ AddBegin(AddKeys, MaxAddFaultAdds)
    \/ AddWorkers
    \/ AddFailures

AddFaultSpec == AddInit /\ [][AddFaultNext]_all_vars

\* process_add_file constructs the metadata of the new file node of a file
\* whose previous file node had metadata.
ConstructMetadata ==
    /\ ~tab_out.constructed
    /\ tab_out' = [constructed |-> TRUE,
                   metadata |-> maybe_construct_generic_metadata_for_tabular(
                                    tab_in.df_metadata, tab_in.previous_oxen_metadata)]
    /\ UNCHANGED tab_in
    /\ UNCHANGED outside_tab

\* The metadata computed for a file, none if it cannot be computed, and the
\* metadata of its previous file node.
TabInit ==
    /\ NoStashState
    /\ NoAddState
    /\ NoCopyState
    /\ NoGlobState
    /\ NoReaderState
    /\ NoStepState
    /\ tab_in \in [df_metadata :
                        {NoMetadata, OtherMetadata}
                            \cup {MetadataTabular(f) : f \in SeqsUpTo(ComputedFields, MaxFields)},
                    previous_oxen_metadata :
                        {OtherMetadata}
                            \cup {MetadataTabular(f) : f \in SeqsUpTo(PreviousFields, MaxFields)}]
    /\ tab_out = [constructed |-> FALSE, metadata |-> NoMetadata]

TabNext == ConstructMetadata

TabSpec == TabInit /\ [][TabNext]_all_vars

\* The user writes a file of the working directory, or removes it.
CopyWriteFile(path, bytes) ==
    /\ copy_budget.edits < MaxCopyEdits
    /\ copy_wt[path] # bytes
    /\ copy_wt' = [copy_wt EXCEPT ![path] = bytes]
    /\ copy_budget' = [copy_budget EXCEPT !.edits = @ + 1]
    /\ copy_last' = NoCopyDone
    /\ UNCHANGED <<copy_head, copy_commits, copy_slots, copy_clock>>
    /\ UNCHANGED outside_copy

\* The user commits the working directory.
CopyCommit ==
    /\ copy_budget.commits < MaxCopyCommits
    /\ copy_budget.commits + 2 <= Len(CopyCommitIds)
    /\ copy_wt # copy_commits[copy_head]
    /\ copy_commits' = [c \in DOMAIN copy_commits \cup {CopyCommitIds[copy_budget.commits + 2]} |->
                          IF c = CopyCommitIds[copy_budget.commits + 2]
                          THEN copy_wt ELSE copy_commits[c]]
    /\ copy_head' = CopyCommitIds[copy_budget.commits + 2]
    /\ copy_budget' = [copy_budget EXCEPT !.commits = @ + 1]
    /\ copy_last' = NoCopyDone
    /\ UNCHANGED <<copy_wt, copy_slots, copy_clock>>
    /\ UNCHANGED outside_copy

\* oxen stash push [-m message], at a millisecond of its own.
CopyPush(message) ==
    /\ copy_clock <= MaxPushes
    /\ IF status_modified_files(copy_wt, copy_commits[copy_head]) = {}
       THEN /\ copy_last' = CopyDone("push", 0, {}, {})
            /\ UNCHANGED <<copy_wt, copy_slots, copy_clock>>
       ELSE /\ copy_slots' =
                   [n \in DOMAIN copy_slots \cup {copy_clock} |->
                       IF n = copy_clock
                       THEN Slot(slot_files(copy_wt, copy_head, message,
                                            status_modified_files(copy_wt, copy_commits[copy_head])),
                                 copy_head,
                                 status_modified_files(copy_wt, copy_commits[copy_head]))
                       ELSE copy_slots[n]]
            /\ copy_wt' = reverted_tree(copy_commits, copy_wt, copy_head,
                                        status_modified_files(copy_wt, copy_commits[copy_head]))
            /\ copy_clock' = copy_clock + 1
            /\ copy_last' = CopyDone("push", copy_clock, {},
                                     status_modified_files(copy_wt, copy_commits[copy_head]))
    /\ UNCHANGED <<copy_head, copy_commits, copy_budget>>
    /\ UNCHANGED outside_copy

\* oxen stash pop
CopyPopTracked(track) ==
    /\ IF DOMAIN copy_slots = {}
       THEN /\ copy_last' = CopyDoneAfter(track, "pop", 0, {})
            /\ UNCHANGED <<copy_wt, copy_slots>>
       ELSE /\ copy_wt' = merged_tree(copy_commits, copy_wt,
                                      copy_slots[latest_stash_name(copy_slots)].files)
            /\ copy_slots' =
                   remaining_slots(copy_slots, latest_stash_name(copy_slots),
                                   conflicted_files(copy_commits, copy_wt,
                                       copy_slots[latest_stash_name(copy_slots)].files))
            /\ copy_last' = CopyDoneAfter(track, "pop", latest_stash_name(copy_slots),
                                     conflicted_files(copy_commits, copy_wt,
                                         copy_slots[latest_stash_name(copy_slots)].files))
    /\ UNCHANGED <<copy_head, copy_commits, copy_clock, copy_budget>>
    /\ UNCHANGED outside_copy

CopyPop == CopyPopTracked(FALSE)

\* oxen stash apply
CopyApplyTracked(track) ==
    /\ IF DOMAIN copy_slots = {}
       THEN /\ copy_last' = CopyDoneAfter(track, "apply", 0, {})
            /\ UNCHANGED copy_wt
       ELSE /\ copy_wt' = merged_tree(copy_commits, copy_wt,
                                      copy_slots[latest_stash_name(copy_slots)].files)
            /\ copy_last' = CopyDoneAfter(track, "apply", latest_stash_name(copy_slots),
                                     conflicted_files(copy_commits, copy_wt,
                                         copy_slots[latest_stash_name(copy_slots)].files))
    /\ UNCHANGED <<copy_head, copy_commits, copy_slots, copy_clock, copy_budget>>
    /\ UNCHANGED outside_copy

CopyApply == CopyApplyTracked(FALSE)

\* The edits of the user: a new content for a.txt, or its removal; the
\* creation and the removal of n.txt; two contents for docs/message.txt;
\* one content for the two files at the root that have the names of the
\* metadata files of a slot.
CopyWrites ==
    ({<<"a.txt">>} \X {"", "X", "Y", Absent})
        \cup ({<<"n.txt">>} \X {"X", Absent})
        \cup ({<<"docs", "message.txt">>} \X {"X", "Y"})
        \cup ({MessageTxt, HeadCommitTxt} \X {"X"})

\* The messages given to push: none, or a note.
Messages == {Absent, "note"}

CopyInit ==
    /\ NoStashState
    /\ NoAddState
    /\ NoTabState
    /\ NoCopyState
    /\ NoGlobState
    /\ NoReaderState
    /\ NoStepState

CopyNext ==
    \/ \E w \in CopyWrites : CopyWriteFile(w[1], w[2])
    \/ CopyCommit
    \/ \E message \in Messages : CopyPush(message)
    \/ CopyPop
    \/ CopyApply

CopySpec == CopyInit /\ [][CopyNext]_all_vars

\* The edits of the runs that keep track of consecutive applications: two
\* contents for a.txt, the creation and the removal of n.txt, one content
\* for docs/message.txt.
TwiceWrites ==
    ({<<"a.txt">>} \X {"X", "Y"})
        \cup ({<<"n.txt">>} \X {"X", Absent})
        \cup ({<<"docs", "message.txt">>} \X {"X"})

\* A push is in one of its two loops.
Pushing == copy_last.op \in {"push_copy", "push_revert"}

\* push, up to its first loop: nothing to do without modified files;
\* otherwise the slot directory is made, with message.txt if a message is
\* given and head_commit.txt.
PushStart(message) ==
    /\ ~Pushing
    /\ copy_clock <= MaxPushes
    /\ IF status_modified_files(copy_wt, copy_commits[copy_head]) = {}
       THEN /\ copy_last' = CopyDone("push", 0, {}, {})
            /\ UNCHANGED <<copy_slots, copy_clock>>
       ELSE /\ copy_slots' =
                   [n \in DOMAIN copy_slots \cup {copy_clock} |->
                       IF n = copy_clock
                       THEN Slot(slot_files(copy_wt, copy_head, message, {}), copy_head, {})
                       ELSE copy_slots[n]]
            /\ copy_clock' = copy_clock + 1
            /\ copy_last' =
                   [CopyDone("push_copy", copy_clock, {},
                             status_modified_files(copy_wt, copy_commits[copy_head]))
                       EXCEPT !.todo = status_modified_files(copy_wt, copy_commits[copy_head])]
    /\ UNCHANGED <<copy_wt, copy_head, copy_commits, copy_budget>>
    /\ UNCHANGED outside_copy

\* The first loop of push is over when it has copied every modified file.
copy_loop_done_at_once(todo) == TRUE

copy_loop_done(todo) == todo = {}

\* push, first loop: one modified file is copied into the slot; after the
\* last one the second loop starts over the same files.
PushCopyFile(path) ==
    /\ copy_last.op = "push_copy"
    /\ path \in copy_last.todo
    /\ copy_slots' =
           [copy_slots EXCEPT ![copy_last.name] =
               Slot([@.files EXCEPT ![path] = copy_wt[path]], @.pushed_at,
                    @.shelved \cup {path})]
    /\ copy_last' =
           IF copy_loop_done(copy_last.todo \ {path})
           THEN [copy_last EXCEPT !.op = "push_revert", !.todo = copy_last.modified]
           ELSE [copy_last EXCEPT !.todo = @ \ {path}]
    /\ UNCHANGED <<copy_wt, copy_head, copy_commits, copy_clock, copy_budget>>
    /\ UNCHANGED outside_copy

\* push, first loop: create_dir_all or fs::copy fails and push returns the
\* error.
PushCopyFails ==
    /\ copy_last.op = "push_copy"
    /\ copy_last' = [copy_last EXCEPT !.op = "push_copy_failed", !.result = "Err"]
    /\ UNCHANGED <<copy_wt, copy_head, copy_commits, copy_slots, copy_clock, copy_budget>>
    /\ UNCHANGED outside_copy

\* push, second loop: one modified file is reverted to its content in HEAD,
\* or removed if HEAD does not have it; after the last one push returns Ok.
PushRevertFile(path) ==
    /\ copy_last.op = "push_revert"
    /\ path \in copy_last.todo
    /\ copy_wt' = reverted_tree(copy_commits, copy_wt, copy_head, {path})
    /\ copy_last' =
           IF copy_last.todo = {path}
           THEN [copy_last EXCEPT !.op = "push", !.todo = {}]
           ELSE [copy_last EXCEPT !.todo = @ \ {path}]
    /\ UNCHANGED <<copy_head, copy_commits, copy_slots, copy_clock, copy_budget>>
    /\ UNCHANGED outside_copy

\* push, second loop: fs::copy of the HEAD version of a file fails and
\* push returns the error.
PushRevertFails ==
    /\ copy_last.op = "push_revert"
    /\ \E path \in copy_last.todo :
           get_version_file_from_commit_id(copy_commits, copy_head, path) # Absent
    /\ copy_last' = [copy_last EXCEPT !.op = "push_revert_failed", !.result = "Err"]
    /\ UNCHANGED <<copy_wt, copy_head, copy_commits, copy_slots, copy_clock, copy_budget>>
    /\ UNCHANGED outside_copy

\* Pushes, file by file and with failing copies, between edits and commits.
CopyPushNext ==
    \/ \E w \in TwiceWrites : ~Pushing /\ CopyWriteFile(w[1], w[2])
    \/ ~Pushing /\ CopyCommit
    \/ \E message \in Messages : PushStart(message)
    \/ \E path \in CopyPaths : PushCopyFile(path)
    \/ PushCopyFails
    \/ \E path \in CopyPaths : PushRevertFile(path)
    \/ PushRevertFails

CopyPushSpec == CopyInit /\ [][CopyPushNext]_all_vars

\* The commands of the copy-tree stash, where pop and apply keep track of
\* an apply that ran right before them.
CopyTwiceNext ==
    \/ \E w \in TwiceWrites : CopyWriteFile(w[1], w[2])
    \/ CopyCommit
    \/ \E message \in Messages : CopyPush(message)
    \/ CopyPopTracked(TRUE)
    \/ CopyApplyTracked(TRUE)

CopyTwiceSpec == CopyInit /\ [][CopyTwiceNext]_all_vars

\* The paths of the working directory where d is a file, or a directory
\* with the file g.
FlipFilePaths == {<<"d">>, <<"d", "g">>}

\* Adds between edits that may replace the directory d by a file and back.
FlipNext ==
    \/ WriteAddFile(FlipFilePaths, MaxFlipEdits)
    \/ RemoveAddFile(FlipFilePaths, MaxFlipEdits)
    \/ RecordConflict(FlipFilePaths, MaxFlipEdits)
    \/ AddBegin(FlipFilePaths \cup {<<>>}, MaxFlipAdds)
    \/ AddWorkers

FlipSpec == AddInit /\ [][FlipNext]_all_vars

\* Deep stacks over one HEAD commit, on and off the branch: the user edits
\* the tracked file.
Next ==
    \/ \E bytes \in FileBytes : WriteFile("a.txt", bytes)
    \/ RemoveFile("a.txt")
    \/ SwitchBranch
    \/ Save(MaxStashes, MaxCommits)
    \/ StashOps(StashIds)

Spec == Init /\ [][Next]_vars

\* Few slots, with staged files and a HEAD that moves.
TreeNext ==
    \/ \E w \in Writes : WriteFile(w[1], w[2])
    \/ \E p \in Paths : RemoveFile(p)
    \/ \E p \in Paths : StageFile(p)
    \/ CommitAll(MaxTreeCommits)
    \/ Save(MaxTreeStashes, MaxTreeCommits)
    \/ StashOps(TreeStashIds)

TreeSpec == Init /\ [][TreeNext]_vars

\* A stash ref written by other means than the stash commands: the first free
\* slot is made to name the root commit, which has no parent.
WriteForeignStashRef(max_stashes) ==
    /\ LET n == Len(list_stashes_raw(refs, commits).val)
       IN  /\ n < max_stashes
           /\ refs' = create_ref(refs, stash_ref_name(n), RootCommit.id)
           /\ commits' = Reachable(refs', commits, head)
           /\ last' = Done("edit", "Ok", -1)
           /\ UNCHANGED <<n_commits, head, on_branch, wt, staged>>
    /\ UNCHANGED outside_stash

\* The stash over refs that may name commits save did not make.
ForeignNext ==
    \/ \E bytes \in FileBytes : WriteFile("a.txt", bytes)
    \/ WriteForeignStashRef(MaxForeignStashes)
    \/ Save(MaxForeignStashes, MaxForeignCommits)
    \/ StashOps(TreeStashIds)

ForeignSpec == Init /\ [][ForeignNext]_vars

\* clear(repo) over a ref database whose delete_ref fails for some of the
\* slots: clear logs each failure and returns Ok(()).
ClearFailing ==
    /\ LET stashes == list_stashes_raw(refs, commits)
       IN  /\ ~stashes.err
           /\ \E failed \in SUBSET (0..(Len(stashes.val) - 1)) :
                  /\ failed # {}
                  /\ refs' = clear_refs_failing(refs, Len(stashes.val), failed)
           /\ last' = Done("clear", "Ok", -1)
           /\ commits' = Reachable(refs', commits, head)
           /\ UNCHANGED <<n_commits, head, on_branch, wt, staged>>
    /\ UNCHANGED outside_stash

\* The stash over a ref database that may fail to delete.
FaultNext ==
    \/ \E bytes \in FileBytes : WriteFile("a.txt", bytes)
    \/ Save(MaxFaultStashes, MaxFaultCommits)
    \/ ClearFailing
    \/ StashOps(TreeStashIds)

FaultSpec == Init /\ [][FaultNext]_vars

(***************************************************************************)
(* The state machine of add with a glob                                    *)
(***************************************************************************)
\* The files the HEAD commit of the runs may have.
GlobHeadFiles == {<<"d", "g">>, <<"d", "e", "h">>}

\* The user writes a file of the working directory.
GlobWriteFile ==
    /\ glob_run.pc = "idle"
    /\ glob_budget.edits < MaxGlobEdits
    /\ \E p \in TreeFilePaths, hash \in Hashes :
           /\ glob_fs[p] # FileOf(hash, "t2")
           /\ (glob_fs[p].exists => glob_fs[p].hash # hash)
           /\ glob_fs' = [glob_fs EXCEPT ![p] = FileOf(hash, "t2")]
    /\ glob_budget' = [glob_budget EXCEPT !.edits = @ + 1]
    /\ UNCHANGED <<glob_head, glob_staged, glob_run>>
    /\ UNCHANGED outside_glob

\* The user removes a file of the working directory.
GlobRemoveFile ==
    /\ glob_run.pc = "idle"
    /\ glob_budget.edits < MaxGlobEdits
    /\ \E p \in TreeFilePaths :
           /\ glob_fs[p].exists
           /\ glob_fs' = [glob_fs EXCEPT ![p] = NoFile]
    /\ glob_budget' = [glob_budget EXCEPT !.edits = @ + 1]
    /\ UNCHANGED <<glob_head, glob_staged, glob_run>>
    /\ UNCHANGED outside_glob

\* add, lines 61-96: the path set is collected and add_files starts its loop.
GlobAdd ==
    /\ glob_run.pc = "idle"
    /\ glob_budget.adds < MaxGlobAdds
    /\ \E path \in GlobPatterns :
           glob_run' = [pc |-> "loop", path |-> path,
                        paths |-> add_paths(glob_fs, glob_head, path),
                        todo |-> add_paths(glob_fs, glob_head, path),
                        added |-> {}, rm |-> FALSE]
    /\ glob_budget' = [glob_budget EXCEPT !.adds = @ + 1]
    /\ UNCHANGED <<glob_fs, glob_head, glob_staged>>
    /\ UNCHANGED outside_glob

\* add_files, lines 120-144: the next path of the set, in the order of the
\* HashSet, is a directory or a file and goes to add_dir_inner or
\* add_file_inner.
AddFilesExisting ==
    /\ glob_run.pc = "loop"
    /\ \E path \in glob_run.todo :
           /\ is_dir(glob_fs, path) \/ is_file(glob_fs, path)
           /\ glob_staged' = staged_after_add(glob_fs, TRUE, glob_head, glob_staged, path, {})
           /\ glob_run' = [glob_run EXCEPT !.todo = @ \ {path}, !.added = @ \cup {path}]
    /\ UNCHANGED <<glob_fs, glob_head, glob_budget>>
    /\ UNCHANGED outside_glob

\* add_files, lines 145-156: after rm_with_staged_db add_files returns.
add_files_returns_after_rm(run) == [run EXCEPT !.pc = "idle", !.rm = TRUE]

\* add_files, lines 145-156: the next path of the set is neither a file nor
\* a directory: rm_with_staged_db is called with the whole set, and add_files
\* returns.
AddFilesNonexistent ==
    /\ glob_run.pc = "loop"
    /\ \E path \in glob_run.todo :
           /\ ~(is_dir(glob_fs, path) \/ is_file(glob_fs, path))
           /\ glob_staged' = rm_with_staged_db(glob_run.paths, glob_fs, glob_head, glob_staged)
           /\ glob_run' = add_files_returns_after_rm([glob_run EXCEPT !.todo = @ \ {path}])
    /\ UNCHANGED <<glob_fs, glob_head, glob_budget>>
    /\ UNCHANGED outside_glob

\* add_files, lines 159-171: the loop is over.
AddFilesEnd ==
    /\ glob_run.pc = "loop"
    /\ glob_run.todo = {}
    /\ glob_run' = [glob_run EXCEPT !.pc = "idle"]
    /\ UNCHANGED <<glob_fs, glob_head, glob_staged, glob_budget>>
    /\ UNCHANGED outside_glob

\* The working directory is the checkout of a HEAD commit that has some of
\* the files.
GlobInit ==
    /\ NoStashState
    /\ NoAddState
    /\ NoTabState
    /\ NoCopyState
    /\ NoReaderState
    /\ NoStepState
    /\ \E tracked \in SUBSET GlobHeadFiles :
           glob_head = [q \in AddFilePaths |->
                           IF q \in tracked THEN NodeOf("h1", SizeOf("h1"), "t1") ELSE NoNode]
    /\ glob_fs = [q \in AddFilePaths |->
                     IF glob_head[q].some THEN FileOf(glob_head[q].hash, glob_head[q].mtime)
                     ELSE NoFile]
    /\ glob_staged = [k \in AddKeys |-> NoStaged]
    /\ glob_run = NoGlobRun
    /\ glob_budget = [edits |-> 0, adds |-> 0]

GlobNext ==
    \/ GlobWriteFile
    \/ GlobRemoveFile
    \/ GlobAdd
    \/ AddFilesExisting
    \/ AddFilesNonexistent
    \/ AddFilesEnd

GlobSpec == GlobInit /\ [][GlobNext]_all_vars

(***************************************************************************)
(* The state machine of the conflict readers                               *)
(***************************************************************************)
\* A merge records a conflict of the path while no reader has the DB open.
WriteConflict ==
    /\ ~reader_open
    /\ reader_budget < MaxConflictWrites
    /\ \E path \in ReaderPaths, conflict \in ReaderConflicts :
           /\ (path_to_str(path) \in DOMAIN reader_db =>
                   reader_db[path_to_str(path)] # conflict_to_json(conflict))
           /\ reader_db' = [k \in DOMAIN reader_db \cup {path_to_str(path)} |->
                               IF k = path_to_str(path) THEN conflict_to_json(conflict)
                               ELSE reader_db[k]]
    /\ reader_dir' = TRUE
    /\ reader_budget' = reader_budget + 1
    /\ reader_last' = NoQuery
    /\ UNCHANGED reader_open
    /\ UNCHANGED outside_reader

\* The conflict of the path is marked resolved: its record is deleted.
MarkResolved ==
    /\ ~reader_open
    /\ reader_budget < MaxConflictWrites
    /\ \E path \in ReaderPaths :
           /\ path_to_str(path) \in DOMAIN reader_db
           /\ reader_db' = [k \in DOMAIN reader_db \ {path_to_str(path)} |-> reader_db[k]]
    /\ reader_budget' = reader_budget + 1
    /\ reader_last' = NoQuery
    /\ UNCHANGED <<reader_dir, reader_open>>
    /\ UNCHANGED outside_reader

\* EntryMergeConflictReader::new: an empty DB is created where there is
\* none, and the DB is opened for read only.
ReaderNew ==
    /\ ~reader_open
    /\ reader_dir' = TRUE
    /\ reader_open' = TRUE
    /\ reader_last' = [NoQuery EXCEPT !.op = "new"]
    /\ UNCHANGED <<reader_db, reader_budget>>
    /\ UNCHANGED outside_reader

\* The reader goes out of scope.
ReaderDrop ==
    /\ reader_open
    /\ reader_open' = FALSE
    /\ reader_last' = NoQuery
    /\ UNCHANGED <<reader_dir, reader_db, reader_budget>>
    /\ UNCHANGED outside_reader

\* has_conflicts
HasConflicts ==
    /\ reader_open
    /\ reader_last' = [op |-> "has_conflicts", path |-> <<>>,
                       result |-> [res |-> has_conflicts(reader_db).res, some |-> FALSE,
                                   val |-> has_conflicts(reader_db).val]]
    /\ UNCHANGED <<reader_dir, reader_db, reader_open, reader_budget>>
    /\ UNCHANGED outside_reader

\* list_conflicts
ListConflicts ==
    /\ reader_open
    /\ reader_last' = [op |-> "list_conflicts", path |-> <<>>,
                       result |-> [res |-> list_conflicts(reader_db).res, some |-> FALSE,
                                   val |-> list_conflicts(reader_db).val]]
    /\ UNCHANGED <<reader_dir, reader_db, reader_open, reader_budget>>
    /\ UNCHANGED outside_reader

\* has_file
HasFile ==
    /\ reader_open
    /\ \E path \in ReaderPaths :
           reader_last' = [op |-> "has_file", path |-> path,
                           result |-> [res |-> has_file(reader_db, path).res, some |-> FALSE,
                                       val |-> has_file(reader_db, path).val]]
    /\ UNCHANGED <<reader_dir, reader_db, reader_open, reader_budget>>
    /\ UNCHANGED outside_reader

\* get_conflict
GetConflict ==
    /\ reader_open
    /\ \E path \in ReaderPaths :
           reader_last' = [op |-> "get_conflict", path |-> path,
                           result |-> get_conflict(reader_db, path)]
    /\ UNCHANGED <<reader_dir, reader_db, reader_open, reader_budget>>
    /\ UNCHANGED outside_reader

ReaderInit ==
    /\ NoStashState
    /\ NoAddState
    /\ NoTabState
    /\ NoCopyState
    /\ NoGlobState
    /\ NoReaderState
    /\ NoStepState

ReaderNext ==
    \/ WriteConflict
    \/ MarkResolved
    \/ ReaderNew
    \/ ReaderDrop
    \/ HasConflicts
    \/ ListConflicts
    \/ HasFile
    \/ GetConflict

ReaderSpec == ReaderInit /\ [][ReaderNext]_all_vars

(***************************************************************************)
(* The state machine of save and drop, one ref write at a time             *)
(***************************************************************************)
\* The stash ids given to drop.
StepStashIds == {None} \cup {Some(usize_to_string(k)) : k \in 0..MaxStepStashes}

\* save, lines 47-99: nothing to stash, no branch, or the stash commit is
\* written and the stashes are listed.
SaveStart ==
    /\ step.pc = "idle"
    /\ IF save_returns_none
       THEN /\ last' = Done("save", "None", -1)
            /\ step' = NoStep
            /\ UNCHANGED <<commits, n_commits>>
       ELSE IF current_branch_is_none
       THEN /\ last' = Done("save", "MustBeOnBranchToStash", -1)
            /\ step' = NoStep
            /\ UNCHANGED <<commits, n_commits>>
       ELSE LET stash_commit == [id |-> CommitIdOf(n_commits),
                                 parent_ids |-> <<head>>,
                                 tree |-> stash_index_tree]
                cs == [x \in DOMAIN commits \cup {stash_commit.id} |->
                          IF x = stash_commit.id THEN stash_commit ELSE commits[x]]
                existing_stashes == list_stashes_raw(refs, cs)
            IN  /\ n_commits <= MaxStepCommits
                /\ Len(existing_stashes.val) < MaxStepStashes
                /\ n_commits' = n_commits + 1
                /\ IF existing_stashes.err
                   THEN /\ commits' = Reachable(refs, cs, head)
                        /\ last' = Done("save", "CommitIdDoesNotExist", -1)
                        /\ step' = NoStep
                   ELSE /\ commits' = cs
                        /\ last' = Done("save", "running", -1)
                        /\ step' = [pc |-> "save_shift", op |-> "save",
                                    i |-> Len(existing_stashes.val),
                                    existing_stashes |-> existing_stashes.val,
                                    stash_commit |-> stash_commit.id,
                                    w0 |-> wt, refs0 |-> refs,
                                    survivors |-> ref_commits(refs), reset |-> FALSE]
    /\ UNCHANGED <<refs, head, on_branch, wt, staged>>
    /\ UNCHANGED outside_step

\* save, lines 101-108: one iteration of the shift.
SaveShiftRef ==
    /\ step.pc = "save_shift"
    /\ step.i > 0
    /\ refs' = save_shift_ref(refs, step.existing_stashes, step.i)
    /\ step' = [step EXCEPT !.i = @ - 1]
    /\ UNCHANGED <<commits, n_commits, head, on_branch, wt, staged, last>>
    /\ UNCHANGED outside_step

\* save, line 110: the new commit is written at ref 0.
SaveStoreRef ==
    /\ step.pc = "save_shift"
    /\ step.i = 0
    /\ refs' = create_ref(refs, stash_ref_name(0), step.stash_commit)
    /\ step' = [step EXCEPT !.pc = "save_reset"]
    /\ UNCHANGED <<commits, n_commits, head, on_branch, wt, staged, last>>
    /\ UNCHANGED outside_step

\* save, lines 117-124: the working directory is reset to HEAD, and the
\* stash commit is returned.
SaveReset ==
    /\ save_reset_enabled(step.pc)
    /\ wt' = reset_hard(save_reset_tree).wt
    /\ staged' = reset_hard(save_reset_tree).staged
    /\ step' = [step EXCEPT !.pc = "idle", !.reset = TRUE]
    /\ last' = Saved(step.w0)
    /\ commits' = Reachable(refs, commits, head)
    /\ UNCHANGED <<refs, n_commits, head, on_branch>>
    /\ UNCHANGED outside_step

\* save, lines 106 and 110: create_ref returns an error, or the process
\* stops, before a write of a ref.
SaveFails ==
    /\ step.pc = "save_shift"
    /\ step' = [step EXCEPT !.pc = "idle"]
    /\ last' = Done("save", "Err", -1)
    /\ commits' = Reachable(refs, commits, head)
    /\ UNCHANGED <<refs, n_commits, head, on_branch, wt, staged>>
    /\ UNCHANGED outside_step

\* save, line 122: reset_hard returns an error, or the process stops, with
\* some of the files reset.
SaveResetFails ==
    /\ step.pc = "save_reset"
    /\ \E done \in SUBSET Paths :
           /\ wt' = [p \in Paths |-> IF p \in done THEN save_reset_tree[p] ELSE wt[p]]
           /\ step' = [step EXCEPT !.pc = "idle", !.reset = (wt' # wt)]
    /\ last' = Done("save", "Err", -1)
    /\ commits' = Reachable(refs, commits, head)
    /\ UNCHANGED <<refs, n_commits, head, on_branch, staged>>
    /\ UNCHANGED outside_step

\* drop, lines 285-290, and drop_by_index, lines 257-260: the id is resolved
\* and the ref of the slot is deleted.
DropStart(stash_id) ==
    /\ step.pc = "idle"
    /\ LET stash_to_drop == resolve_stash_id_to_entry(refs, commits, stash_id)
           k == index_of_ref_name(stash_to_drop.entry.ref_name)
       IN  IF stash_to_drop.res # "Ok"
           THEN /\ last' = Done("drop", stash_to_drop.res, -1)
                /\ step' = NoStep
                /\ UNCHANGED refs
           ELSE /\ refs' = delete_ref(refs, stash_ref_name(k))
                /\ last' = Done("drop", "running", k)
                /\ step' = [NoStep EXCEPT
                               !.pc = "drop_shift", !.op = "drop", !.i = k + 1,
                               !.w0 = wt, !.refs0 = refs,
                               !.survivors = ref_commits(delete_ref(refs, stash_ref_name(k)))]
    /\ UNCHANGED <<commits, n_commits, head, on_branch, wt, staged>>
    /\ UNCHANGED outside_step

\* drop_by_index, lines 266-269: ref i exists, its commit is written at ref
\* i-1.
DropShiftCreate ==
    /\ step.pc = "drop_shift"
    /\ get_commit_id_for_ref(refs, stash_ref_name(step.i)).some
    /\ refs' = drop_shift_first(refs, step.i,
                                get_commit_id_for_ref(refs, stash_ref_name(step.i)).val)
    /\ step' = [step EXCEPT !.pc = "drop_delete"]
    /\ UNCHANGED <<commits, n_commits, head, on_branch, wt, staged, last>>
    /\ UNCHANGED outside_step

\* drop_by_index, lines 270-275: ref i is deleted, and the loop goes on.
DropShiftDelete ==
    /\ step.pc = "drop_delete"
    /\ refs' = drop_shift_second(refs, step.i)
    /\ step' = [step EXCEPT !.pc = "drop_shift", !.i = @ + 1]
    /\ UNCHANGED <<commits, n_commits, head, on_branch, wt, staged, last>>
    /\ UNCHANGED outside_step

\* drop_by_index, lines 272-278: there is no ref i, the loop is over.
DropEnd ==
    /\ step.pc = "drop_shift"
    /\ ~get_commit_id_for_ref(refs, stash_ref_name(step.i)).some
    /\ step' = [step EXCEPT !.pc = "idle"]
    /\ last' = Done("drop", "Ok", last.k)
    /\ commits' = Reachable(refs, commits, head)
    /\ UNCHANGED <<refs, n_commits, head, on_branch, wt, staged>>
    /\ UNCHANGED outside_step

\* drop_by_index, lines 269-270: create_ref or delete_ref returns an error,
\* or the process stops, before a write of a ref.
DropFails ==
    /\ step.pc \in {"drop_shift", "drop_delete"}
    /\ step' = [step EXCEPT !.pc = "idle"]
    /\ last' = Done("drop", "Err", last.k)
    /\ commits' = Reachable(refs, commits, head)
    /\ UNCHANGED <<refs, n_commits, head, on_branch, wt, staged>>
    /\ UNCHANGED outside_step

StepInit ==
    /\ NoStashState
    /\ NoAddState
    /\ NoTabState
    /\ NoCopyState
    /\ NoGlobState
    /\ NoReaderState
    /\ NoStepState

\* Saves and drops that may stop before any of their writes, between edits
\* and removals of the tracked file.
StepNext ==
    \/ \E bytes \in FileBytes : step.pc = "idle" /\ WriteFile("a.txt", bytes)
    \/ step.pc = "idle" /\ RemoveFile("a.txt")
    \/ SaveStart
    \/ SaveShiftRef
    \/ SaveStoreRef
    \/ SaveReset
    \/ SaveFails
    \/ SaveResetFails
    \/ \E stash_id \in StepStashIds : DropStart(stash_id)
    \/ DropShiftCreate
    \/ DropShiftDelete
    \/ DropEnd
    \/ DropFails

StepSpec == StepInit /\ [][StepNext]_all_vars

(***************************************************************************)
(* Properties of the ref-backed stash                                      *)
(***************************************************************************)
RefCount == Cardinality(DOMAIN refs)

\* The commit ids at <stash-dir>/i, <stash-dir>/i+1, ... up to the first absent ref.
RECURSIVE SlotsFrom(_, _)
SlotsFrom(r, i) ==
    IF stash_ref_name(i) \in DOMAIN r
    THEN <<r[stash_ref_name(i)]>> \o SlotsFrom(r, i + 1)
    ELSE <<>>

Slots(r) == SlotsFrom(r, 0)

\* The sequence without its j-th element.
RemoveAt(seq, j) == SubSeq(seq, 1, j - 1) \o SubSeq(seq, j + 1, Len(seq))

\* Whether the three-way merge of slot k's commit into HEAD conflicts.
SlotConflictsWithHead(k) ==
    LET c == commits[refs[stash_ref_name(k)]]
    IN  conflicted_paths(commits[c.parent_ids[1]].tree, HeadTree, c.tree) # {}

\* C1: after any sequence of completed save, drop and pop operations the
\* existing stash refs are exactly those of the indices 0..N-1, for some N.
C1_StashRefsDense ==
    \E N \in 0..RefCount : DOMAIN refs = {stash_ref_name(k) : k \in 0..(N - 1)}

C1_Witness == last.op = "drop" /\ last.res = "Ok" /\ last.k = 0 /\ RefCount = 2

\* C2: when the merge of the popped slot reports conflicts, pop returns
\* MergeConflict and drops nothing: every stash ref is as it was.
C2_PopConflictKeepsSlots ==
    [][(last'.op = "pop" /\ last'.k >= 0 /\ SlotConflictsWithHead(last'.k))
        => (/\ last'.res = "MergeConflict"
            /\ refs' = refs
            /\ stash_ref_name(last'.k) \in DOMAIN refs')]_vars

C2_Witness == last.op = "pop" /\ last.res = "MergeConflict" /\ RefCount >= 1

\* C3: a pop that succeeds drops exactly the slot its id resolved to before
\* the apply: the slots below keep their commits, those above move down by one.
C3_PopDropsResolvedSlot ==
    [][(last'.op = "pop" /\ last'.res = "Ok")
        => (/\ last'.k >= 0
            /\ Slots(refs') = RemoveAt(Slots(refs), last'.k + 1)
            /\ Cardinality(DOMAIN refs') = Len(Slots(refs)) - 1)]_vars

C3_Witness == last.op = "pop" /\ last.res = "Ok" /\ last.k = 1 /\ RefCount = 2

\* C4: after a save that created a stash the working tree equals the tree of
\* the HEAD commit that was current when save was called.
C4_SaveResetsToHead ==
    [][(last'.op = "save" /\ last'.res = "Some")
        => (wt' = HeadTree /\ head' = head)]_vars

C4_Witness ==
    /\ last.op = "save" /\ last.res = "Some"
    /\ last.w0["a.txt"] = "HELLO" /\ last.w0["b.txt"] = "hello"
    /\ wt["a.txt"] = "hello" /\ wt["b.txt"] = Absent

\* The working tree w removes no file of HEAD: it differs from HEAD by
\* modified, staged-added and untracked files only.
NoTrackedFileRemoved(w) == \A p \in Paths : HeadTree[p] # Absent => w[p] # Absent

C6_SavePushesOnTop ==
    [][(last'.op = "save" /\ last'.res = "Some")
        => LET old == Slots(refs)
               new == Slots(refs')
           IN  /\ Len(new) = Len(old) + 1
               /\ Cardinality(DOMAIN refs') = Len(new)
               /\ new[1] = CommitIdOf(n_commits)
               /\ new[1] \notin DOMAIN commits
               /\ commits'[new[1]].parent_ids = <<head>>
               /\ \A i \in 1..Len(old) : new[i + 1] = old[i]]_vars

C6_Witness == last.op = "save" /\ last.res = "Some" /\ RefCount = 3

\* C7: a drop of slot k among N slots leaves N-1 slots: those below k are
\* unchanged, those above move down by one, and no stash ref holds the commit
\* that was at k.
C7_DropCompacts ==
    [][(last'.op = "drop" /\ last'.res = "Ok")
        => LET old == Slots(refs)
           IN  /\ last'.k \in 0..(Len(old) - 1)
               /\ Slots(refs') = RemoveAt(old, last'.k + 1)
               /\ Cardinality(DOMAIN refs') = Len(old) - 1
               /\ \A n \in DOMAIN refs' : refs'[n] # old[last'.k + 1]]_vars

C7_Witness == last.op = "drop" /\ last.res = "Ok" /\ last.k = 1 /\ RefCount = 2

\* C8: save on a clean working tree returns None, writes no commit and leaves
\* the stash refs and the working tree as they were.
C8_SaveOnCleanIsNoOp ==
    [][(last'.op = "save" /\ is_clean)
        => (/\ last'.res = "None"
            /\ refs' = refs
            /\ commits' = commits
            /\ n_commits' = n_commits
            /\ wt' = wt
            /\ staged' = staged)]_vars

C8_Witness == last.op = "save" /\ last.res = "None" /\ RefCount >= 1

\* C9: apply never changes the stash refs, whether it succeeds, reports
\* conflicts or fails: the list of slots is the one before.
C9_ApplyKeepsRefs ==
    [][last'.op = "apply"
        => (refs' = refs /\ list(refs', commits') = list(refs, commits))]_vars

C9_Witness == last.op = "apply" /\ last.res = "MergeConflict" /\ RefCount >= 1

\* Whether the stash id denotes slot j (counted from 0) of the slots: by
\* default, as K, as stash@{K}, as the ref name or as a prefix of the commit id.
Matches(stash_id, slots, j) ==
    IF ~stash_id.some
    THEN j = 0
    ELSE \/ stash_id.val = usize_to_string(j)
         \/ stash_id.val = stash_display_name(j)
         \/ stash_id.val = stash_ref_name(j)
         \/ StartsWith(slots[j + 1], stash_id.val)

\* C10: apply, pop and drop fail with NoStashesFound when no slot exists and
\* with StashIdNotFound when the id matches no slot; the stash refs and the
\* working tree are then unchanged.
C10_UnmatchedIdFails ==
    [][\A stash_id \in StashIds :
        (Apply(stash_id) \/ Pop(stash_id) \/ Drop(stash_id))
        => LET slots == Slots(refs)
           IN  /\ slots = <<>>
                   => (last'.res = "NoStashesFound" /\ refs' = refs /\ wt' = wt)
               /\ (slots # <<>> /\ \A j \in 0..(Len(slots) - 1) : ~Matches(stash_id, slots, j))
                   => (last'.res = "StashIdNotFound" /\ refs' = refs /\ wt' = wt)]_vars

\* C11: save with local changes while HEAD is on no branch fails with
\* MustBeOnBranchToStash; no stash ref is created or moved, no commit is kept
\* and the working tree is not reset.
C11_SaveOffBranchFails ==
    [][(last'.op = "save" /\ ~is_clean /\ ~on_branch)
        => (/\ last'.res = "MustBeOnBranchToStash"
            /\ refs' = refs
            /\ commits' = commits
            /\ wt' = wt
            /\ staged' = staged)]_vars

C11_Witness ==
    /\ last.op = "save" /\ last.res = "MustBeOnBranchToStash"
    /\ RefCount = 2 /\ wt # HeadTree

\* C12: apply and pop of a slot whose commit has no parent fail with
\* CorruptStashCommit, with the working tree and the stash refs unchanged.
C12_ParentlessStashIsCorrupt ==
    [][(/\ last'.op \in {"apply", "pop"}
        /\ last'.k >= 0
        /\ commits[refs[stash_ref_name(last'.k)]].parent_ids = <<>>)
        => (/\ last'.res = "CorruptStashCommit"
            /\ wt' = wt
            /\ refs' = refs)]_vars

C12_Witness ==
    /\ last.op = "pop" /\ last.res = "CorruptStashCommit" /\ last.k = 1
    /\ RefCount = 2 /\ wt # HeadTree

\* C13: with at least one slot, an absent id resolves to slot 0, and the ids
\* K and stash@{K} resolve to the slot at index K, for every K below the
\* number of slots.
C13_IndexFormsResolve ==
    LET stashes == list(refs, commits).val
    IN  Len(stashes) >= 1 =>
            /\ resolve_stash_id_to_entry(refs, commits, None) = Ok(stashes[1])
            /\ stashes[1].commit.id = refs[stash_ref_name(0)]
            /\ \A K \in 0..(Len(stashes) - 1) :
                   \A id \in {usize_to_string(K), stash_display_name(K)} :
                       LET e == resolve_stash_id_to_entry(refs, commits, Some(id))
                       IN  /\ e.res = "Ok"
                           /\ e.entry.ref_name = stash_ref_name(K)
                           /\ e.entry.commit.id = refs[stash_ref_name(K)]

C13_Witness == last.op = "apply" /\ last.k = 2 /\ RefCount = 3

\* The positions of the listed stashes whose commit id starts with id.
SlotsWithPrefix(stashes, id) ==
    {j \in 1..Len(stashes) : StartsWith(stashes[j].commit.id, id)}

\* C14: an id that is the ref name of a slot, or a prefix of a slot's commit
\* id, resolves to a slot with that ref name or with a commit id starting with
\* it; an id that is a prefix of the commit id of exactly one slot resolves to
\* that slot.
C14_NameAndPrefixResolve ==
    LET stashes == list(refs, commits).val
    IN  \A id \in StashIdStrings :
            LET e == resolve_stash_id_to_entry(refs, commits, Some(id))
                named == {j \in 1..Len(stashes) : stashes[j].ref_name = id}
                prefixed == SlotsWithPrefix(stashes, id)
            IN  /\ (named \cup prefixed # {})
                    => (/\ e.res = "Ok"
                        /\ (e.entry.ref_name = id \/ StartsWith(e.entry.commit.id, id)))
                /\ Cardinality(prefixed) = 1
                    => (e.res = "Ok" /\ \A j \in prefixed : e.entry = stashes[j])

\* C15: after clear has returned Ok no stash ref exists and the list of
\* stashes is empty; a save that follows leaves exactly one slot, at index 0.
C15_ClearLeavesNoRef ==
    [][/\ (last'.op = "clear" /\ last'.res = "Ok")
            => (DOMAIN refs' = {} /\ list(refs', commits').val = <<>>)
       /\ (last.op = "clear" /\ last.res = "Ok"
            /\ last'.op = "save" /\ last'.res = "Some")
            => DOMAIN refs' = {stash_ref_name(0)}]_vars

(***************************************************************************)
(* Properties of the add engine                                            *)
(***************************************************************************)
\* The file whose worker runs process_add_file in the step.
Processed(p) == add_tasks[p].pc = "process" /\ add_tasks'[p].pc = "done"

\* The status process_add_file has for the file when it decides to write.
FinalStatus(p) == process_add_file_status(add_tasks[p].file_status, p, merge_db)

\* C16: add never writes a file whose final status is Unmodified to the
\* staged DB, and always puts the staged entry of a file whose final status
\* is Added or Modified under the relative path of the file.
C16_UnmodifiedNotStaged ==
    [][\A p \in AddFilePaths :
          Processed(p) =>
              /\ FinalStatus(p) = "Unmodified" =>
                     (staged_db' = staged_db /\ add_puts' = add_puts)
              /\ FinalStatus(p) \in {"Added", "Modified"} =>
                     /\ add_puts'[p] = add_puts[p] + 1
                     /\ staged_db'[p].kind = "file"
                     /\ staged_db'[p].status = FinalStatus(p)
                     /\ staged_db'[p].hash = fs[p].hash]_all_vars

C16_Witness ==
    /\ add_last.mode = "dir"
    /\ add_last.run.unchanged_files = 1
    /\ add_last.run.added_files = 1
    /\ staged_db[<<"d", "e", "k">>].status = "Added"
    /\ staged_db[<<"d", "e", "h">>].kind = "none"

\* C17: after any sequence of adds, every file entry of the staged DB has a
\* directory entry with status Added at each of its ancestors, the root
\* included.
C17_DirectoryCoverage ==
    add_pc = "idle" =>
        \A k \in AddKeys :
            staged_db[k].kind = "file" =>
                \A a \in ancestors(k) :
                    staged_db[a].kind = "dir" /\ staged_db[a].status = "Added"

\* The step in which an add returns that repeats the add before it on the
\* same path, with no change of the working directory or HEAD in between.
RepeatedAddReturns == add_pc # "idle" /\ add_pc' = "idle" /\ add_stats.repeat

\* The files an add of the path visits.
VisitedFiles(path) ==
    {q \in AddFilePaths : fs[q].exists /\ (q = path \/ IsStrictPrefix(path, q))}

\* The visited files that differ from the HEAD commit: new, or other content.
DiffersFromHead(path) ==
    {q \in VisitedFiles(path) : ~head_nodes[q].some \/ head_nodes[q].hash # fs[q].hash}

\* C18 (as claimed): the second of two adds of the same path, with no
\* change in between, makes no put to the staged DB and counts every visited
\* file as unchanged and none as added.
C18_SecondAddWritesNothing ==
    [][RepeatedAddReturns =>
          /\ add_puts = NoPuts
          /\ add_stats.added_files = 0
          /\ add_pc = "dir" =>
                 add_stats.unchanged_files = Cardinality(VisitedFiles(add_stats.path))]_all_vars

\* C18 (amended): the second of two adds of the same path, with no change
\* in between, leaves the staged DB as the first add left it; it puts again
\* the entry of every visited file that differs from HEAD and counts it as
\* added, and puts and counts as added no other file; the add of a
\* directory counts the other visited files as unchanged.
C18_SecondAddKeepsStagedDb ==
    [][RepeatedAddReturns =>
          /\ staged_db = add_stats.before
          /\ \A q \in AddFilePaths :
                 is_file(fs, q) =>
                     add_puts[q] = IF q \in DiffersFromHead(add_stats.path) THEN 1 ELSE 0
          /\ add_stats.added_files = Cardinality(DiffersFromHead(add_stats.path))
          /\ add_pc = "dir" =>
                 add_stats.unchanged_files =
                     Cardinality(VisitedFiles(add_stats.path) \ DiffersFromHead(add_stats.path))]_all_vars

C18_Witness ==
    /\ add_last.run.repeat
    /\ add_last.mode = "dir"
    /\ add_last.run.added_files = 1
    /\ add_last.run.unchanged_files = 1
    /\ add_last.puts[<<"d", "e", "k">>] = 1

\* C19: for any path with a pending conflict record, the add of the path
\* writes a staged entry with status Modified for it, also when its content
\* equals the HEAD version, and removes the conflict record of the path.
C19_ReAddResolvesConflict ==
    [][\A p \in AddFilePaths :
          (Processed(p) /\ p \in merge_db) =>
              /\ add_puts'[p] = add_puts[p] + 1
              /\ staged_db'[p].kind = "file"
              /\ staged_db'[p].status = "Modified"
              /\ p \notin merge_db']_all_vars

\* C20: at every instant of an add, under every interleaving of its
\* workers, each file entry the add has put in the staged DB has the blob of
\* its hash in the version store: the store of a file comes before its put.
C20_StoreBeforeStage ==
    \A p \in AddFilePaths :
        (add_puts[p] > 0 /\ staged_db[p].kind = "file") =>
            staged_db[p].hash \in version_store

C20_Witness ==
    /\ add_pc = "dir"
    /\ add_puts[<<"d", "e", "k">>] = 1
    /\ add_tasks[<<"d", "e", "h">>].pc = "status"
    /\ fs[<<"d", "e", "h">>].hash # fs[<<"d", "e", "k">>].hash
    /\ version_store = {fs[<<"d", "e", "k">>].hash}

\* The step in which the add of a directory ends, by return or by panic.
AddDirEnds == add_pc = "dir" /\ add_pc' = "idle"

\* The files on which the add failed.
FailedFiles == {q \in AddFilePaths : add_tasks[q].pc \in {"failed", "panicked"}}

\* C21: when the hashing, the reading of the metadata or the storing of the
\* blob of one file fails during the add of a directory, the walk is not
\* aborted: the add completes, and every other file of the walk has been
\* classified and, if it differs from HEAD, staged.
C21_FileFailureIsolated ==
    [][(AddDirEnds /\ FailedFiles # {}) =>
          /\ add_last'.result = "Ok"
          /\ \A q \in VisitedFiles(add_stats.path) \ FailedFiles :
                 /\ add_tasks[q].pc = "done"
                 /\ q \in DiffersFromHead(add_stats.path) =>
                        (add_puts[q] = 1 /\ staged_db[q].kind = "file")]_all_vars

\* The file whose worker runs determine_file_status in the step.
Classified(p) == add_tasks[p].pc = "status" /\ add_tasks'[p].pc = "process"

\* C22: determine_file_status classifies a file as Added iff the HEAD commit
\* has no file node of its name, and otherwise as Unmodified iff the content
\* hash of the file equals the hash of the node and as Modified iff it
\* differs, whether or not the modification times are equal.
C22_StatusByHeadNodeAndHash ==
    [][\A p \in AddFilePaths :
          Classified(p) =>
              /\ add_tasks'[p].file_status.status \in {"Added", "Modified", "Unmodified"}
              /\ add_tasks'[p].file_status.status = "Added" <=> ~head_nodes[p].some
              /\ head_nodes[p].some =>
                     /\ add_tasks'[p].file_status.status = "Unmodified"
                            <=> fs[p].hash = head_nodes[p].hash
                     /\ add_tasks'[p].file_status.status = "Modified"
                            <=> fs[p].hash # head_nodes[p].hash]_all_vars

C22_Witness ==
    /\ add_tasks[<<"d", "e", "h">>].pc = "process"
    /\ add_tasks[<<"d", "e", "h">>].file_status.status = "Modified"
    /\ fs[<<"d", "e", "h">>].mtime = head_nodes[<<"d", "e", "h">>].mtime
    /\ add_tasks[<<"d", "e", "k">>].pc = "process"
    /\ add_tasks[<<"d", "e", "k">>].file_status.status = "Added"

\* C23: add calls the store operation of the version store for a file only
\* when the status of the file is not Unmodified: classifying a file as
\* Unmodified comes with no call of the version store and no write to it.
C23_UnmodifiedNotStored ==
    [][\A p \in AddFilePaths :
          (Classified(p) /\ add_tasks'[p].file_status.status = "Unmodified") =>
              (p \notin add_stats'.stores /\ version_store' = version_store)]_all_vars

\* The fields of the previous schema that have the name.
PreviousNamed(name) ==
    {j \in 1..Len(tab_in.previous_oxen_metadata.fields) :
        tab_in.previous_oxen_metadata.fields[j].name = name}

\* C24: when a tabular file with previous tabular metadata is re-added, the
\* schema of the new file node has exactly the fields of the newly computed
\* metadata; each field whose name is the name of a field of the previous
\* schema carries the annotation of that previous field, and each other
\* field keeps the annotation computed for it.
C24_TabularAnnotationsKept ==
    (/\ tab_out.constructed
     /\ tab_in.df_metadata.kind = "tabular"
     /\ tab_in.previous_oxen_metadata.kind = "tabular") =>
        /\ tab_out.metadata.kind = "tabular"
        /\ Len(tab_out.metadata.fields) = Len(tab_in.df_metadata.fields)
        /\ \A i \in 1..Len(tab_in.df_metadata.fields) :
               /\ tab_out.metadata.fields[i].name = tab_in.df_metadata.fields[i].name
               /\ tab_out.metadata.fields[i].dtype = tab_in.df_metadata.fields[i].dtype
               /\ PreviousNamed(tab_in.df_metadata.fields[i].name) = {} =>
                      tab_out.metadata.fields[i].metadata = tab_in.df_metadata.fields[i].metadata
               /\ PreviousNamed(tab_in.df_metadata.fields[i].name) # {} =>
                      \E j \in PreviousNamed(tab_in.df_metadata.fields[i].name) :
                          tab_out.metadata.fields[i].metadata
                              = tab_in.previous_oxen_metadata.fields[j].metadata

C24_Witness ==
    /\ tab_out.constructed
    /\ tab_in.df_metadata.kind = "tabular"
    /\ tab_in.previous_oxen_metadata.kind = "tabular"
    /\ Len(tab_out.metadata.fields) = 2
    /\ tab_out.metadata.fields[1].metadata = "annotated"
    /\ tab_out.metadata.fields[1].dtype = "i64"
    /\ tab_out.metadata.fields[2].metadata = "computed"

(***************************************************************************)
(* Properties of the copy-tree stash                                       *)
(***************************************************************************)
\* The last command was a pop or an apply that found a slot; the slot as it
\* was when the command started.
Applied == copy_last.op \in {"pop", "apply"} /\ copy_last.name # 0

AppliedSlot == copy_last.slots0[copy_last.name]

\* For a path of the slot: the stashed bytes S, the local bytes L the
\* command found (Absent if the file did not exist) and the base bytes B in
\* the commit that was HEAD when the slot was made (Absent if that commit
\* does not have the path).
StashedBytes(p) == AppliedSlot.files[p]

LocalBytes(p) == copy_last.wt0[p]

BaseBytes(p) == get_version_file_from_commit_id(copy_commits, AppliedSlot.pushed_at, p)

\* C25: when pop or apply handles a shelved path whose base content B
\* exists, it records a conflict for the path exactly when L # B, S # B and
\* L # S, and on a conflict the file of the working directory is left as it
\* was.
C25_ConflictIffBothChangedDifferently ==
    Applied =>
        \A p \in AppliedSlot.shelved :
            BaseBytes(p) # Absent =>
                /\ p \in copy_last.conflicted_files
                       <=> (/\ LocalBytes(p) # BaseBytes(p)
                            /\ StashedBytes(p) # BaseBytes(p)
                            /\ LocalBytes(p) # StashedBytes(p))
                /\ p \in copy_last.conflicted_files => copy_wt[p] = LocalBytes(p)

\* C26: when pop or apply handles a shelved path whose base content B
\* exists: if S # B and L = B the file becomes S; if L # B, S # B and L = S
\* the file has the content S; if S = B the file is left as it was; and in
\* none of these cases a conflict is recorded.
C26_NonConflictingCases ==
    Applied =>
        \A p \in AppliedSlot.shelved :
            BaseBytes(p) # Absent =>
                /\ (StashedBytes(p) # BaseBytes(p) /\ LocalBytes(p) = BaseBytes(p)) =>
                       copy_wt[p] = StashedBytes(p) /\ p \notin copy_last.conflicted_files
                /\ (/\ LocalBytes(p) # BaseBytes(p)
                    /\ StashedBytes(p) # BaseBytes(p)
                    /\ LocalBytes(p) = StashedBytes(p)) =>
                       copy_wt[p] = StashedBytes(p) /\ p \notin copy_last.conflicted_files
                /\ StashedBytes(p) = BaseBytes(p) =>
                       copy_wt[p] = LocalBytes(p) /\ p \notin copy_last.conflicted_files

\* C27: when pop or apply handles a shelved path that the base commit does
\* not have: if a local file exists at the path a conflict is recorded and
\* the local file is kept as it was; if no local file exists the stashed
\* bytes are written to the working directory.
C27_NewFileCases ==
    Applied =>
        \A p \in AppliedSlot.shelved :
            BaseBytes(p) = Absent =>
                /\ LocalBytes(p) # Absent =>
                       p \in copy_last.conflicted_files /\ copy_wt[p] = LocalBytes(p)
                /\ LocalBytes(p) = Absent => copy_wt[p] = StashedBytes(p)

\* C28: pop removes the slot it applied exactly when it recorded no
\* conflict, and otherwise leaves the slot, with all its files, as it was;
\* pop leaves every other slot as it was; apply leaves every slot as it
\* was.
C28_PopRemovesSlotIffNoConflict ==
    /\ (copy_last.op = "pop" /\ copy_last.name # 0) =>
           /\ copy_last.conflicted_files = {} <=> copy_last.name \notin DOMAIN copy_slots
           /\ copy_last.conflicted_files # {} => copy_slots = copy_last.slots0
           /\ \A n \in DOMAIN copy_last.slots0 \ {copy_last.name} :
                  n \in DOMAIN copy_slots /\ copy_slots[n] = copy_last.slots0[n]
    /\ copy_last.op = "apply" => copy_slots = copy_last.slots0

\* A pop with a conflict while an older slot is there.
C28_Witness ==
    /\ copy_last.op = "pop"
    /\ copy_last.conflicted_files # {}
    /\ copy_last.name = 2
    /\ DOMAIN copy_slots = {1, 2}

\* C29: after a push that made a slot, the slot holds the content every
\* modified file had before the push at its relative path and
\* head_commit.txt with the HEAD id; every modified file that HEAD has is
\* back to its HEAD content in the working directory, and every modified
\* file that HEAD does not have is removed from it.
C29_PushShelvesAndReverts ==
    (copy_last.op = "push" /\ copy_last.name # 0) =>
        /\ \A p \in copy_last.modified :
               copy_slots[copy_last.name].files[p] = copy_last.wt0[p]
        /\ copy_slots[copy_last.name].files[HeadCommitTxt] = copy_last.head0
        /\ \A p \in copy_last.modified :
               copy_wt[p] = get_version_file_from_commit_id(copy_commits, copy_last.head0, p)

(***************************************************************************)
(* The seen-dirs sets of the add engine                                    *)
(***************************************************************************)
\* C30: within one add operation the staged entry of each directory is
\* written at most once, also when several workers or several visited
\* subdirectories stage files under the same ancestor directory.
C30_DirEntryWrittenOnce ==
    \A k \in AddKeys : staged_db[k].kind = "dir" => add_puts[k] <= 1

(***************************************************************************)
(* More properties of the copy-tree stash                                  *)
(***************************************************************************)
\* C32: pop and apply operate on the slot with the greatest timestamp among
\* the slot directories that exist; with no slot they change nothing and
\* return Ok.
C32_AppliesLatestSlot ==
    copy_last.op \in {"pop", "apply"} =>
        /\ copy_last.result = "Ok"
        /\ DOMAIN copy_last.slots0 = {} =>
               /\ copy_last.name = 0
               /\ copy_wt = copy_last.wt0
               /\ copy_slots = copy_last.slots0
        /\ DOMAIN copy_last.slots0 # {} =>
               /\ copy_last.name \in DOMAIN copy_last.slots0
               /\ \A m \in DOMAIN copy_last.slots0 : m <= copy_last.name
               /\ copy_wt = merged_tree(copy_commits, copy_last.wt0,
                                        copy_last.slots0[copy_last.name].files)

\* An apply that found two slots and wrote a file of the newer one.
C32_Witness ==
    /\ copy_last.op = "apply"
    /\ DOMAIN copy_last.slots0 = {1, 2}
    /\ copy_last.name = 2
    /\ copy_wt # copy_last.wt0

\* The last two commands were applications of the same slot, the second
\* one an apply or a pop.
AppliedTwice(op) ==
    /\ copy_last.op = op
    /\ copy_last.name # 0
    /\ copy_last.prev.op = "apply"
    /\ copy_last.prev.name = copy_last.name

\* The shelved files pop and apply handle as new files: the lookup of the
\* path in the base commit of the slot fails.
HandledAsNew ==
    {p \in stashed_files(AppliedSlot.files) :
        get_version_file_from_commit_id(copy_commits, base_commit_id(AppliedSlot.files), p)
            = Absent}

C37_CopiedBeforeReverted ==
    /\ copy_last.op \in {"push_copy", "push_copy_failed"} => copy_wt = copy_last.wt0
    /\ (copy_last.op \in {"push_copy", "push_copy_failed", "push_revert",
                           "push_revert_failed", "push"} /\ copy_last.name # 0) =>
           \A p \in copy_last.modified :
               copy_wt[p] # copy_last.wt0[p] =>
                   copy_slots[copy_last.name].files[p] = copy_last.wt0[p]

\* A push that stopped in its first loop with one file copied and another
\* one not.
C37_Witness ==
    /\ copy_last.op = "push_copy_failed"
    /\ copy_slots[copy_last.name].shelved # {}
    /\ copy_slots[copy_last.name].shelved # copy_last.modified
    /\ copy_wt = copy_last.wt0

(***************************************************************************)
(* More properties of the add engine                                       *)
(***************************************************************************)
\* C39: every file entry a running add has written with the status Added or
\* Modified records as num_bytes the size the file has on disk.
C39_StagedSizeIsFileSize ==
    \A p \in AddFilePaths :
        (/\ add_puts[p] > 0
         /\ staged_db[p].kind = "file"
         /\ staged_db[p].status \in {"Added", "Modified"}) =>
            staged_db[p].num_bytes = SizeOf(fs[p].hash)

\* The staged DB an add of the directory leaves, whatever the order of its
\* workers.
ExpectedStaged(before, path, conflicts) ==
    staged_after_add(fs, head_commit, head_nodes, before, path, conflicts)

\* C34: the add of a directory returns only when the walk is over and every
\* worker has finished; at the return the staged DB has the file entry of
\* every visited file classified Added or Modified, and its content is the
\* one content the working directory, the HEAD commit, the conflict records
\* and the staged DB before the add determine, whatever the interleaving of
\* the workers was.
C34_ParallelAddComplete ==
    [][(AddDirEnds /\ add_last'.result = "Ok") =>
          /\ add_dirs = {}
          /\ \A q \in VisitedFiles(add_stats.path) :
                 /\ add_tasks[q].pc = "done"
                 /\ add_tasks[q].file_status.status \in {"Added", "Modified"} =>
                        /\ staged_db'[q].kind = "file"
                        /\ staged_db'[q].hash = fs[q].hash
          /\ staged_db' = ExpectedStaged(add_stats.before, add_stats.path,
                                         add_stats.conflicts)]_all_vars

\* An add of the directory d has returned after two workers staged the
\* changed files d/g and d/e/k of two directories.
C34_Witness ==
    /\ add_pc = "idle"
    /\ add_last.mode = "dir"
    /\ add_last.result = "Ok"
    /\ add_last.run.path = <<"d">>
    /\ add_last.puts[<<"d", "g">>] = 1
    /\ add_last.puts[<<"d", "e", "k">>] = 1
    /\ staged_db[<<"d", "g">>].kind = "file"
    /\ staged_db[<<"d", "e", "k">>].kind = "file"

(***************************************************************************)
(* Properties of add with a glob                                           *)
(***************************************************************************)
\* The step in which the add of a glob returns.
GlobAddReturns ==
    glob_run.pc = "loop" /\ glob_run'.pc = "idle" /\ is_glob_path(glob_run.path)

\* C31: when the add of a glob returns, the paths it was run on are the
\* matches in the working directory and the matches in the HEAD commit;
\* every one of them that is a file or a directory of the working directory
\* went through add_file_inner or add_dir_inner, and every one that is a
\* file of the HEAD commit no longer in the working directory is staged as
\* Removed, whatever the order the path set was iterated in.
C31_GlobProcessesUnion ==
    [][GlobAddReturns =>
          /\ glob_run.paths = glob(glob_fs, glob_run.path) \cup
                                  search_entries(glob_head, glob_run.path)
          /\ \A p \in glob_run.paths :
                 /\ (is_file(glob_fs, p) \/ is_dir(glob_fs, p)) => p \in glob_run'.added
                 /\ (p \in AddFilePaths /\ glob_head[p].some /\ ~is_file(glob_fs, p)) =>
                        glob_staged'[p].status = "Removed"]_all_vars

(***************************************************************************)
(* Properties of the conflict readers                                      *)
(***************************************************************************)
\* The step in which an open reader answers a query.
QueryAnswered ==
    /\ reader_open
    /\ reader_last'.op \in {"has_conflicts", "list_conflicts", "has_file", "get_conflict"}

\* What the four queries answer on the DB agrees: has_conflicts and a
\* non-empty list go with a DB that has a record, and has_file of a path with
\* get_conflict returning the record stored under the key of the path.
QueriesAgree(db) ==
    /\ has_conflicts(db).res = "Ok"
    /\ list_conflicts(db).res = "Ok"
    /\ has_conflicts(db).val <=> DOMAIN db # {}
    /\ list_conflicts(db).val # <<>> <=> DOMAIN db # {}
    /\ Len(list_conflicts(db).val) = Cardinality(DOMAIN db)
    /\ \A path \in ReaderPaths :
           /\ has_file(db, path).res = "Ok"
           /\ has_file(db, path).val <=>
                  /\ get_conflict(db, path).some
                  /\ path_to_str(path) \in DOMAIN db
                  /\ db[path_to_str(path)] = conflict_to_json(get_conflict(db, path).val)
           /\ ~has_file(db, path).val <=>
                  (get_conflict(db, path) = ReaderNone /\ path_to_str(path) \notin DOMAIN db)

\* C33: the queries of the conflict reader agree with each other and with
\* the records of the DB - has_conflicts is true iff the DB has a record iff
\* list_conflicts is not empty, has_file of a path is true iff get_conflict
\* returns the record stored under the key of the path - the answer given is
\* the one computed on the DB, and neither a query nor the opening of the
\* reader changes the records.
C33_ReaderQueriesConsistent ==
    [][/\ QueryAnswered =>
             /\ reader_db' = reader_db
             /\ QueriesAgree(reader_db)
             /\ reader_last'.op = "has_conflicts" =>
                    (reader_last'.result.val <=> DOMAIN reader_db # {})
             /\ reader_last'.op = "list_conflicts" =>
                    (reader_last'.result.val # <<>> <=> DOMAIN reader_db # {})
             /\ reader_last'.op = "has_file" =>
                    (reader_last'.result.val <=>
                         path_to_str(reader_last'.path) \in DOMAIN reader_db)
             /\ reader_last'.op = "get_conflict" =>
                    (reader_last'.result.some <=>
                         path_to_str(reader_last'.path) \in DOMAIN reader_db)
       /\ reader_last'.op = "new" => reader_db' = reader_db]_all_vars

\* has_file has answered true for d/a on a DB that has records of two paths.
C33_Witness ==
    /\ reader_open
    /\ reader_last.op = "has_file"
    /\ reader_last.path = <<"d", "a">>
    /\ reader_last.result.val = TRUE
    /\ Cardinality(DOMAIN reader_db) = 2

C36_SurvivorsStayReferenced ==
    step.survivors \subseteq ref_commits(refs)

\* A drop of slot 0 of three stashes has written the commit of slot 1 at ref
\* 0 and has yet to delete ref 1; and the two surviving commits are
\* different commits.
C36_Witness ==
    /\ step.op = "drop"
    /\ step.pc = "drop_delete"
    /\ step.i = 1
    /\ Cardinality(step.survivors) = 2
    /\ Cardinality(DOMAIN step.refs0) = 3
    /\ refs[stash_ref_name(0)] = refs[stash_ref_name(1)]
====
